---- MODULE Spec2Model ----
(***************************************************************************)
(* Hand-tracking pipeline of the VR-Games-Platform repository:             *)
(*   OneEuroFilter and HandCursor      (src/hand-tracker.js)               *)
(*   BoxingTracker                     (src/games/flappy/flappy.js)        *)
(*   Fruit Ninja detectHands           (src/unnamed/part_000)              *)
(*                                                                         *)
(* Units.  Positions are integers in thousandths of the normalized camera  *)
(* space (0.5 is 500).  Times are integer milliseconds.  Derivatives are   *)
(* hundredths of a unit per second.  Cutoff frequencies are thousandths of *)
(* a hertz.  A smoothing coefficient r/(r+1) is kept as the pair           *)
(* <<rn, rn + RScale>> with r = rn / RScale.  Every real-valued expression *)
(* of the code is evaluated exactly and rounded once to the nearest grid   *)
(* point.                                                                  *)
(***************************************************************************)
EXTENDS Integers, Sequences, FiniteSets, TLC

VARIABLES
    now,        \* the wall clock, Date.now() and performance.now(), in ms
    frames,     \* number of handler calls made so far (bounds the runs)
    flt,        \* a OneEuroFilter object driven directly
    fltT,       \* the timestamp handed to the last filter() call, in ms
    fltRet,     \* what the last call on flt returned and what it was given
    fltRun,     \* what flt has been fed since it was constructed or reset
    cursor,         \* HandCursor.cursor
    secondHand,     \* HandCursor.secondHand
    filters,        \* HandCursor.filters: [x, y] OneEuroFilters
    pinchStartTime, \* HandCursor.pinchStartTime
    hcEvents,       \* the callbacks the last _onResults call invoked, in order
    hcFrame,        \* what the last _onResults call was given and found
    hcRun,          \* the current run of frames with the pinch predicate true
    handData,       \* Fruit Ninja: the two hand slots, each with its filters
    palmVisible,    \* Fruit Ninja: palmVisible
    palmCursor,     \* Fruit Ninja: palmCursorX, palmCursorY (normalized)
    fnFrame,        \* Fruit Ninja: what the last detectHands call was given
    bt,             \* the BoxingTracker object
    btEvents,       \* the callbacks the last update() call invoked, in order
    btLog,          \* when the events of each kind last fired
    jab,            \* the scripted jab: its parameters, position and punches
    gest,           \* the last hand classified and the label each classifier gave
    pf,             \* Particle Forge: the script's hand and gesture state
    pfLog,          \* Particle Forge: what the last onHandResults call was given
    hud,            \* HUD demo: the script's hand and gesture state
    hudLog,         \* HUD demo: what the last onResults call was given
    palmUI,         \* Flappy Finger: game state and the palm hover-to-select state
    palmLog,        \* Flappy Finger: the current streak of palm frames
    tracker,        \* HandCursor: ready, PINCH_THRESHOLD and the camera stream
    trLog,          \* HandCursor: the last lifecycle call and its argument
    snap,           \* the objects the read accessors returned to the page
    boot,           \* HandCursor: how far init() and its timers have come
    opp,            \* OpponentAI: its fields, pending timers, last callbacks
    oppLog,         \* OpponentAI: the last call and the state before it
    game,           \* KNOCKOUT: the GameEngine and the page's pending timers
    gameLog         \* KNOCKOUT: the last step of the page and the engine before it

fltVars == <<flt, fltT, fltRet, fltRun>>

hcVars == <<cursor, secondHand, filters, pinchStartTime, hcEvents, hcFrame, hcRun>>

fnVars == <<handData, palmVisible, palmCursor, fnFrame>>

vars == <<now, frames, flt, fltT, fltRet, fltRun,
          cursor, secondHand, filters, pinchStartTime, hcEvents, hcFrame, hcRun,
          handData, palmVisible, palmCursor, fnFrame, bt, btEvents, btLog,
          jab, gest, pf, pfLog, hud, hudLog, palmUI, palmLog,
          tracker, trLog, snap, boot, opp, oppLog,
          game, gameLog>>

btVars == <<bt, btEvents, btLog>>

\* the variables of the scripted scenarios
gcVars == <<pf, pfLog, hud, hudLog>>

palmVars == <<palmUI, palmLog>>

lifeVars == <<tracker, trLog>>

\* the variables of the pages around the trackers
oppVars == <<opp, oppLog>>

gameVars == <<game, gameLog>>

lateVars == <<boot, oppVars, gameVars>>

auxVars == <<jab, gest, gcVars, palmVars, lifeVars, snap, lateVars>>

(***************************************************************************)
(* Arithmetic                                                              *)
(***************************************************************************)
Null == -999999

T0 == 1000

Abs(n) == IF n < 0 THEN -n ELSE n

Max(a, b) == IF a >= b THEN a ELSE b

Min(a, b) == IF a <= b THEN a ELSE b

\* n / d rounded to the nearest integer (d > 0)
Rnd(n, d) == (n + (d \div 2)) \div d

TwoPiMilli == 6283

RScale == 1000 * 1000

(***************************************************************************)
(* OneEuroFilter                                                           *)
(***************************************************************************)
\* constructor(freq = 60, minCutoff, beta, dCutoff = 1.0)
NewFilter(minCutoff, beta) ==
    [freq |-> 60, minCutoff |-> minCutoff, beta |-> beta, dCutoff |-> 1000,
     xPrev |-> Null, dxPrev |-> 0, tPrev |-> Null]

FilterDtAbs(t, tPrev) == IF t - tPrev = 0 THEN 1 ELSE Abs(t - tPrev) * 1000

\* dt = Math.max(1e-6, t - tPrev), in microseconds
FilterDt(t, tPrev) == IF t - tPrev <= 0 THEN 1 ELSE (t - tPrev) * 1000

\* r = 2 * PI * cutoff * dt ; return r / (r + 1)
SmoothingFactor(cutoff, dtus) ==
    LET rn == (((TwoPiMilli * cutoff) \div 1000) * dtus) \div 1000
    IN  <<rn, rn + RScale>>

\* a * x + (1 - a) * xPrev for a = alpha[1] / alpha[2]
Blend(alpha, x, xPrev) == xPrev + Rnd(alpha[1] * (x - xPrev), alpha[2])

\* the first-sample branch of filter(): tPrev === null
FilterFirst(f, x, t) ==
    [f EXCEPT !.xPrev = x, !.tPrev = t, !.dxPrev = 0]

FilterSmoothMut(f, x, t) ==
    LET dt       == FilterDt(t, f.tPrev)
        dx       == Rnd((x - f.xPrev) * 100000, dt)
        aDx      == SmoothingFactor(f.dCutoff, dt)
        dxSmooth == Blend(aDx, dx, f.dxPrev)
        cutoff   == f.minCutoff + ((f.beta * Abs(dxSmooth)) \div 100)
        a        == SmoothingFactor(cutoff, dt)
        xSmooth  == Blend(a, x, 0)
    IN  [f EXCEPT !.freq = 1000000 \div dt, !.xPrev = xSmooth,
                  !.dxPrev = dxSmooth, !.tPrev = t]

\* the smoothing branch of filter()
FilterSmooth(f, x, t) ==
    LET dt       == FilterDt(t, f.tPrev)
        dx       == Rnd((x - f.xPrev) * 100000, dt)
        aDx      == SmoothingFactor(f.dCutoff, dt)
        dxSmooth == Blend(aDx, dx, f.dxPrev)
        cutoff   == f.minCutoff + ((f.beta * Abs(dxSmooth)) \div 100)
        a        == SmoothingFactor(cutoff, dt)
        xSmooth  == Blend(a, x, f.xPrev)
    IN  [f EXCEPT !.freq = 1000000 \div dt, !.xPrev = xSmooth,
                  !.dxPrev = dxSmooth, !.tPrev = t]

\* the two smoothing coefficients aDx and a that filter(x, t) computes
FilterCoeffs(f, x, t) ==
    LET dt       == FilterDt(t, f.tPrev)
        dx       == Rnd((x - f.xPrev) * 100000, dt)
        aDx      == SmoothingFactor(f.dCutoff, dt)
        dxSmooth == Blend(aDx, dx, f.dxPrev)
        cutoff   == f.minCutoff + ((f.beta * Abs(dxSmooth)) \div 100)
    IN  [aDx |-> aDx, a |-> SmoothingFactor(cutoff, dt)]

\* filter(x, t): the filter after the call; the call returns its xPrev
Filter(f, x, t) ==
    IF f.tPrev = Null THEN FilterFirst(f, x, t) ELSE FilterSmooth(f, x, t)

ResetMut(f) == [f EXCEPT !.dxPrev = 0]

\* reset()
Reset(f) == [f EXCEPT !.xPrev = Null, !.dxPrev = 0, !.tPrev = Null]

FilterConstructed ==
    /\ flt = NewFilter(1200, 5)
    /\ fltT = T0
    /\ fltRet = [op |-> "new", x |-> Null, t |-> Null, out |-> Null,
                 first |-> FALSE, before |-> NewFilter(1200, 5)]
    /\ fltRun = [n |-> 0, v |-> Null, still |-> TRUE, incr |-> TRUE,
                 resets |-> 0]

(***************************************************************************)
(* Hand landmarks: 21 points [x, y, z] per detected hand.  MkHand builds   *)
(* an upright hand from the wrist position, the state of the four fingers  *)
(* ("up", "half": tip between PIP and MCP, "curl": tip below the MCP) and  *)
(* the place of the thumb tip.                                             *)
(***************************************************************************)
Pt(x, y, z) == [x |-> x, y |-> y, z |-> z]

FingerMcp == [f \in 1..4 |-> 4 * f + 1]

FingerPip == [f \in 1..4 |-> 4 * f + 2]

FingerTip == [f \in 1..4 |-> 4 * f + 4]

MkHand(wx, wy, wz, fs, thumb) ==
    LET mcpX(f) == wx + 40 * f - 100
        mcpY    == wy - 200
        tipY(f) == CASE fs[f] = "up" -> mcpY - 160
                     [] fs[f] = "half" -> mcpY - 40
                     [] OTHER -> mcpY + 20
        thumbTip == CASE thumb = "pinch" -> Pt(mcpX(1) + 30, tipY(1), wz)
                      [] thumb = "spread" -> Pt(mcpX(1) - 150, mcpY - 60, wz)
                      [] OTHER -> Pt(mcpX(1) + 20, mcpY + 10, wz)
    IN  [i \in 0..20 |->
           CASE i = 0 -> Pt(wx, wy, wz)
             [] i = 4 -> thumbTip
             [] i \in {5, 9, 13, 17} -> Pt(mcpX((i - 1) \div 4), mcpY, wz)
             [] i \in {6, 10, 14, 18} -> Pt(mcpX((i - 2) \div 4), mcpY - 80, wz)
             [] i \in {8, 12, 16, 20} ->
                    Pt(mcpX((i - 4) \div 4), tipY((i - 4) \div 4), wz)
             [] OTHER -> Pt(wx, wy, wz)]

\* squared 2D distance of two landmarks (Math.hypot / Math.sqrt of the code)
Dist2(p, q) == (p.x - q.x) * (p.x - q.x) + (p.y - q.y) * (p.y - q.y)

\* squared 3D distance of two landmarks
Dist3sq(p, q) == Dist2(p, q) + (p.z - q.z) * (p.z - q.z)

(***************************************************************************)
(* HandCursor                                                              *)
(***************************************************************************)
PINCH_THRESHOLD == 80

PINCH_HOLD_MS == 60

\* this.PINCH_THRESHOLD = options.pinchThreshold || 0.08 (Null: not given)
HC_pinchThreshold(pinchThreshold) ==
    IF pinchThreshold = Null \/ pinchThreshold = 0 THEN PINCH_THRESHOLD
    ELSE pinchThreshold

\* _isPinching(thumbTip, indexTip): dist < this.PINCH_THRESHOLD
HC_isPinching(thumbTip, indexTip) ==
    /\ tracker.PINCH_THRESHOLD > 0
    /\ Dist2(thumbTip, indexTip) < tracker.PINCH_THRESHOLD * tracker.PINCH_THRESHOLD

HC_isPointing(lm) ==
    /\ lm[8].y < lm[6].y
    /\ lm[12].y > lm[10].y
    /\ lm[16].y > lm[14].y
    /\ lm[20].y > lm[18].y

\* tipToWrist < pipToWrist * 0.85 for at least 3 fingers (0.85^2 = 289/400)
HC_isFistClosed(lm) ==
    Cardinality({f \in 1..4 :
        400 * Dist2(lm[FingerTip[f]], lm[0]) < 289 * Dist2(lm[FingerPip[f]], lm[0])}) >= 3

\* BoxingTracker._isFistClosed(landmarks): tip below its MCP for at least 3 fingers
BT_isFistClosed(lm) ==
    Cardinality({f \in 1..4 : lm[FingerTip[f]].y > lm[FingerMcp[f]].y}) >= 3

HC_isPalmOpen(lm) ==
    /\ \A f \in 1..4 : lm[FingerTip[f]].y < lm[FingerTip[f] - 2].y
    /\ Dist2(lm[4], lm[5]) > 60 * 60

HCConstructed ==
    /\ cursor = [x |-> 500, y |-> 500, visible |-> FALSE, pinching |-> FALSE,
                 pointing |-> FALSE, fistClosed |-> FALSE, palmOpen |-> FALSE]
    /\ secondHand = [x |-> 500, y |-> 500, visible |-> FALSE, pinching |-> FALSE]
    /\ filters = [x |-> NewFilter(1200, 5), y |-> NewFilter(1200, 5)]
    /\ pinchStartTime = 0
    /\ hcEvents = <<>>
    /\ hcFrame = [hands |-> 0, pinch |-> FALSE, wasPinching |-> FALSE,
                  lastBefore |-> "none", rawX |-> Null, rawY |-> Null,
                  wasVisible |-> FALSE]
    /\ hcRun = [start |-> Null, fires |-> 0, gap |-> FALSE, last |-> "none"]

\* the tracker of a page: constructed without pinchThreshold, init() done
TrackerReady ==
    /\ tracker = [ready |-> TRUE, PINCH_THRESHOLD |-> HC_pinchThreshold(Null),
                  video |-> "live"]
    /\ trLog = [op |-> "init", opt |-> Null, threw |-> FALSE]

PinchStepMut(pinching, pst, isPinching, t) ==
    IF isPinching /\ ~pinching
    THEN IF pst = 0
         THEN [pinching |-> pinching, pst |-> t, ev |-> <<>>]
         ELSE IF t - pst > PINCH_HOLD_MS
              THEN [pinching |-> TRUE, pst |-> 0, ev |-> <<"onPinch">>]
              ELSE [pinching |-> pinching, pst |-> pst, ev |-> <<>>]
    ELSE IF ~isPinching
         THEN IF pinching
              THEN [pinching |-> FALSE, pst |-> 0, ev |-> <<"onRelease">>]
              ELSE [pinching |-> pinching, pst |-> pst, ev |-> <<>>]
         ELSE [pinching |-> pinching, pst |-> pst, ev |-> <<>>]

PinchStepSticky(pinching, pst, isPinching, t) ==
    IF isPinching /\ ~pinching
    THEN IF pst = 0
         THEN [pinching |-> pinching, pst |-> t, ev |-> <<>>]
         ELSE IF t - pst > PINCH_HOLD_MS
              THEN [pinching |-> TRUE, pst |-> 0, ev |-> <<"onPinch">>]
              ELSE [pinching |-> pinching, pst |-> pst, ev |-> <<>>]
    ELSE IF ~isPinching
         THEN IF pinching
              THEN [pinching |-> TRUE, pst |-> 0, ev |-> <<"onRelease">>]
              ELSE [pinching |-> pinching, pst |-> 0, ev |-> <<>>]
         ELSE [pinching |-> pinching, pst |-> pst, ev |-> <<>>]

\* the pinch state machine of _onResults, with t = Date.now()
PinchStep(pinching, pst, isPinching, t) ==
    IF isPinching /\ ~pinching
    THEN IF pst = 0
         THEN [pinching |-> pinching, pst |-> t, ev |-> <<>>]
         ELSE IF t - pst > PINCH_HOLD_MS
              THEN [pinching |-> TRUE, pst |-> 0, ev |-> <<"onPinch">>]
              ELSE [pinching |-> pinching, pst |-> pst, ev |-> <<>>]
    ELSE IF ~isPinching
         THEN IF pinching
              THEN [pinching |-> FALSE, pst |-> 0, ev |-> <<"onRelease">>]
              ELSE [pinching |-> pinching, pst |-> 0, ev |-> <<>>]
         ELSE [pinching |-> pinching, pst |-> pst, ev |-> <<>>]

\* the bookkeeping of the claims: runs of pinch-true frames and the last event
HC_RunAfter(hands, isPinching, ev, t) ==
    LET fired == IF ev = <<"onPinch">> THEN 1 ELSE 0
        last  == IF ev = <<>> THEN hcRun.last ELSE ev[1]
    IN  IF hands = 0
        THEN [start |-> Null, fires |-> 0, gap |-> TRUE, last |-> last]
        ELSE IF ~isPinching
             THEN [start |-> Null, fires |-> 0, gap |-> FALSE, last |-> last]
             ELSE [start |-> IF hcRun.start = Null THEN t ELSE hcRun.start,
                   fires |-> hcRun.fires + fired,
                   gap   |-> hcRun.gap,
                   last  |-> last]

\* _onResults(results) on a frame without hands
HC_NoHands(t) ==
    /\ cursor' = [cursor EXCEPT !.visible = FALSE]
    /\ secondHand' = [secondHand EXCEPT !.visible = FALSE]
    /\ filters' = [x |-> Reset(filters.x), y |-> Reset(filters.y)]
    /\ hcEvents' = <<"onResults">>
    /\ hcFrame' = [hands |-> 0, pinch |-> FALSE, wasPinching |-> cursor.pinching,
                   lastBefore |-> hcRun.last, rawX |-> Null, rawY |-> Null,
                   wasVisible |-> cursor.visible]
    /\ hcRun' = HC_RunAfter(0, FALSE, <<>>, t)
    /\ UNCHANGED pinchStartTime

\* _onResults(results) on a frame with one or two hands
HC_Hands(hands, t) ==
    LET lm         == hands[1]
        isPinching == HC_isPinching(lm[4], lm[8])
        isPalmOpen == HC_isPalmOpen(lm)
        rawX       == 1000 - lm[8].x
        rawY       == lm[8].y
        fx         == Filter(filters.x, rawX, t)
        fy         == Filter(filters.y, rawY, t)
        ps         == PinchStep(cursor.pinching, pinchStartTime, isPinching, t)
    IN  /\ filters' = [x |-> fx, y |-> fy]
        /\ cursor' = [x |-> fx.xPrev, y |-> fy.xPrev, visible |-> TRUE,
                      pinching |-> ps.pinching,
                      pointing |-> HC_isPointing(lm),
                      fistClosed |-> HC_isFistClosed(lm),
                      palmOpen |-> isPalmOpen]
        /\ pinchStartTime' = ps.pst
        /\ hcEvents' = <<"onResults">>
                       \o (IF isPalmOpen THEN <<"onPalmOpen">> ELSE <<>>)
                       \o ps.ev \o <<"onMove">>
        /\ secondHand' =
              IF Len(hands) > 1
              THEN [x |-> 1000 - hands[2][8].x, y |-> hands[2][8].y,
                    visible |-> TRUE,
                    pinching |-> HC_isPinching(hands[2][4], hands[2][8])]
              ELSE secondHand
        /\ hcFrame' = [hands |-> Len(hands), pinch |-> isPinching,
                       wasPinching |-> cursor.pinching,
                       lastBefore |-> hcRun.last, rawX |-> rawX, rawY |-> rawY,
                       wasVisible |-> cursor.visible]
        /\ hcRun' = HC_RunAfter(Len(hands), isPinching, ps.ev, t)

HCMaxFrames == 5

HCDTs == {20, 50}

HCPinchHand == MkHand(500, 800, 0, <<"up", "up", "up", "up">>, "pinch")

HCOpenHand == MkHand(300, 800, 0, <<"up", "up", "up", "up">>, "spread")

HCFistHand == MkHand(500, 800, 0, <<"half", "curl", "curl", "curl">>, "spread")

HCResults ==
    {<<>>, <<HCPinchHand>>, <<HCOpenHand>>, <<HCPinchHand, HCOpenHand>>,
     <<HCFistHand, HCPinchHand>>}

\* one detection frame: _loop calls _onResults with the detector's result
HC_onResults(results, dt) ==
    /\ tracker.ready
    /\ frames < HCMaxFrames
    /\ frames' = frames + 1
    /\ now' = now + dt
    /\ IF Len(results) = 0 THEN HC_NoHands(now') ELSE HC_Hands(results, now')
    /\ UNCHANGED <<fltVars, fnVars, btVars, auxVars>>

(***************************************************************************)
(* HandCursor life cycle: new HandCursor(options), init(), destroy()        *)
(***************************************************************************)
LifeOptions == {Null, -80, 0, 40, 80}

\* new HandCursor({pinchThreshold}) replaces the page's tracker
HC_construct(pinchThreshold) ==
    /\ cursor' = [x |-> 500, y |-> 500, visible |-> FALSE, pinching |-> FALSE,
                  pointing |-> FALSE, fistClosed |-> FALSE, palmOpen |-> FALSE]
    /\ secondHand' = [x |-> 500, y |-> 500, visible |-> FALSE, pinching |-> FALSE]
    /\ filters' = [x |-> NewFilter(1200, 5), y |-> NewFilter(1200, 5)]
    /\ pinchStartTime' = 0
    /\ hcEvents' = <<>>
    /\ hcFrame' = [hands |-> 0, pinch |-> FALSE, wasPinching |-> FALSE,
                   lastBefore |-> "none", rawX |-> Null, rawY |-> Null,
                   wasVisible |-> FALSE]
    /\ hcRun' = [start |-> Null, fires |-> 0, gap |-> FALSE, last |-> "none"]
    /\ tracker' = [ready |-> FALSE,
                   PINCH_THRESHOLD |-> HC_pinchThreshold(pinchThreshold),
                   video |-> "none"]
    /\ trLog' = [op |-> "construct", opt |-> pinchThreshold, threw |-> FALSE]
    /\ UNCHANGED <<now, frames, fltVars, fnVars, btVars, jab, gest, gcVars,
                   palmVars, snap>>

\* init(): the camera stream is opened, onloadeddata sets ready
HC_init ==
    /\ ~tracker.ready
    /\ tracker' = [tracker EXCEPT !.ready = TRUE, !.video = "live"]
    /\ trLog' = [op |-> "init", opt |-> Null, threw |-> FALSE]
    /\ UNCHANGED <<now, frames, fltVars, hcVars, fnVars, btVars, jab, gest,
                   gcVars, palmVars, snap, lateVars>>

\* destroy()
HC_destroy ==
    /\ tracker' = [tracker EXCEPT !.ready = FALSE,
                                  !.video = IF @ = "live" THEN "stopped" ELSE @]
    /\ trLog' = [op |-> "destroy", opt |-> Null, threw |-> FALSE]
    /\ UNCHANGED <<now, frames, fltVars, hcVars, fnVars, btVars, jab, gest,
                   gcVars, palmVars, snap, lateVars>>

LifeResults == {<<>>, <<HCPinchHand>>}

(***************************************************************************)
(* init() step by step.  pc is the await init() is suspended at ("new"      *)
(* before init() is called, "waitLoaded" once the stream is attached and    *)
(* onloadeddata is installed, "loaded" after onloadeddata ran), timer is    *)
(* the 1500 ms warm-up timer, loopDue says that a call of _loop is          *)
(* scheduled (by the timer or by requestAnimationFrame), calls lists the    *)
(* onReady and onError calls.                                               *)
(***************************************************************************)
BootRunning ==
    boot = [pc |-> "loaded", timer |-> "fired", loopDue |-> TRUE,
            calls |-> <<"onReady">>]

BootAwaits == <<"awaitLib", "awaitVision", "awaitModel", "awaitCamera">>

\* the page builds a new HandCursor once the previous one is past init()
Boot_construct ==
    /\ boot.pc \in {"loaded", "failed"}
    /\ boot.timer # "pending"
    /\ HC_construct(Null)
    /\ boot' = [pc |-> "new", timer |-> "none", loopDue |-> FALSE,
                calls |-> <<>>]
    /\ UNCHANGED <<oppVars, gameVars>>

\* init() up to its first await: the video element is created
Boot_init ==
    /\ boot.pc = "new"
    /\ boot' = [boot EXCEPT !.pc = BootAwaits[1]]
    /\ UNCHANGED <<now, frames, fltVars, hcVars, fnVars, btVars, jab, gest,
                   gcVars, palmVars, lifeVars, snap, oppVars, gameVars>>

\* the awaited promise resolves and init() runs to its next await; after
\* getUserMedia: video.srcObject = stream and onloadeddata is installed
Boot_resume ==
    /\ \E i \in 1..Len(BootAwaits) :
          /\ boot.pc = BootAwaits[i]
          /\ boot' = [boot EXCEPT !.pc = IF i < Len(BootAwaits)
                                         THEN BootAwaits[i + 1]
                                         ELSE "waitLoaded"]
          /\ tracker' = IF i < Len(BootAwaits) THEN tracker
                        ELSE [tracker EXCEPT !.video = "live"]
    /\ UNCHANGED <<now, frames, fltVars, hcVars, fnVars, btVars, jab, gest,
                   gcVars, palmVars, trLog, snap, oppVars, gameVars>>

\* the awaited promise rejects: catch (err) calls onError
Boot_reject ==
    /\ \E i \in 1..Len(BootAwaits) : boot.pc = BootAwaits[i]
    /\ boot' = [boot EXCEPT !.pc = "failed", !.calls = Append(@, "onError")]
    /\ UNCHANGED <<now, frames, fltVars, hcVars, fnVars, btVars, jab, gest,
                   gcVars, palmVars, lifeVars, snap, oppVars, gameVars>>

\* video.onloadeddata: ready = true, onReady(), setTimeout(_loop, 1500)
Boot_onloadeddata ==
    /\ boot.pc = "waitLoaded"
    /\ tracker.video = "live"
    /\ tracker' = [tracker EXCEPT !.ready = TRUE]
    /\ boot' = [boot EXCEPT !.pc = "loaded", !.timer = "pending",
                            !.calls = Append(@, "onReady")]
    /\ UNCHANGED <<now, frames, fltVars, hcVars, fnVars, btVars, jab, gest,
                   gcVars, palmVars, trLog, snap, oppVars, gameVars>>

\* the warm-up timer fires and calls _loop
Boot_timer ==
    /\ boot.timer = "pending"
    /\ boot' = [boot EXCEPT !.timer = "fired", !.loopDue = TRUE]
    /\ UNCHANGED <<now, frames, fltVars, hcVars, fnVars, btVars, jab, gest,
                   gcVars, palmVars, lifeVars, snap, oppVars, gameVars>>

\* _loop(): if (!this.ready) return, and no next call is requested
Boot_loopStop ==
    /\ boot.loopDue
    /\ ~tracker.ready
    /\ boot' = [boot EXCEPT !.loopDue = FALSE]
    /\ UNCHANGED <<now, frames, fltVars, hcVars, fnVars, btVars, jab, gest,
                   gcVars, palmVars, lifeVars, snap, oppVars, gameVars>>

\* _loop() with a new video frame: _onResults, then requestAnimationFrame
Boot_loopFrame(results, dt) ==
    /\ boot.loopDue
    /\ tracker.video = "live"
    /\ HC_onResults(results, dt)

(***************************************************************************)
(* OpponentAI (opponent.js).  Times in ms, stunMeter in tenths.  timers is  *)
(* the list of pending setTimeout callbacks in the order they were set,     *)
(* each with its due time; the timers that only remove a CSS class are left *)
(* out.  events lists the callbacks of the last call, each onAttack with    *)
(* the state and isStunned it was invoked in.  Math.random() is a choice.   *)
(***************************************************************************)
\* speed in tenths and hp of ROOKIE RAY, SWIFT SARAH, IRON MIKE, THUNDER
\* THEA and KING KOBRA
OppFighters ==
    <<[speed |-> 7, hp |-> 80], [speed |-> 12, hp |-> 90],
      [speed |-> 8, hp |-> 120], [speed |-> 10, hp |-> 100],
      [speed |-> 13, hp |-> 150]>>

\* constructor()
Opp_New ==
    [state |-> "idle", hp |-> 100, maxHp |-> 100, stunMeter |-> 0,
     maxStun |-> 1000, isStunned |-> FALSE, stunEndTime |-> 0,
     nextAttackTime |-> 0, attackInterval |-> [min |-> 1500, max |-> 3500],
     telegraphDuration |-> 600, currentFighter |-> 0,
     timers |-> <<>>, events |-> <<>>]

OppConstructed ==
    /\ opp = Opp_New
    /\ oppLog = [op |-> "new", pre |-> "idle", preStunned |-> FALSE]

\* setFighter(index)
Opp_setFighter(S, index) ==
    LET k == Min(index, Len(OppFighters) - 1)
        f == OppFighters[k + 1]
    IN  [S EXCEPT !.currentFighter = k, !.maxHp = f.hp, !.hp = f.hp,
                  !.stunMeter = 0, !.isStunned = FALSE, !.state = "idle",
                  !.attackInterval = [min |-> Max(800, Rnd(20000, f.speed)),
                                      max |-> Max(1500, Rnd(40000, f.speed))],
                  !.events = <<>>]

\* _doAttack(type, direction, isCounter) at time t
Opp_doAttack(S, type, direction, isCounter, t) ==
    LET otherDir == IF direction = "left" THEN "right" ELSE "left"
        second == IF type = "combo"
                  THEN <<[kind |-> "comboSecond", due |-> t + 300,
                          type |-> "hook", dir |-> otherDir]>>
                  ELSE <<>>
    IN  [S EXCEPT !.state = "attacking",
                  !.events = Append(@, [ev |-> "onAttack", type |-> type,
                                        dir |-> direction, isCounter |-> isCounter,
                                        state |-> "attacking",
                                        stunned |-> S.isStunned]),
                  !.timers = @ \o second
                             \o <<[kind |-> "attackEnd", due |-> t + 350,
                                   type |-> type, dir |-> direction]>>]

\* _enterStun() at time t
Opp_enterStun(S, t) ==
    [S EXCEPT !.isStunned = TRUE, !.state = "stunned",
              !.stunEndTime = t + 2500,
              !.events = Append(@, [ev |-> "onStunned"])]

\* _knockdown()
Opp_knockdown(S) ==
    [S EXCEPT !.state = "knocked-down",
              !.events = Append(@, [ev |-> "onKnockdown"])]

\* takeDamage(amount, punchType) at time t; block and dodge are the outcomes
\* of Math.random() < blockChance and < dodgeChance
Opp_takeDamage(S, amount, punchType, block, dodge, t) ==
    LET S0 == [S EXCEPT !.events = <<>>]
        actualDamage == IF S.isStunned THEN Rnd(amount * 3, 2) ELSE amount
        stunAdd == IF punchType = "uppercut" THEN 300
                   ELSE IF punchType = "hook" THEN 200 ELSE 100
        hit  == [S0 EXCEPT !.hp = Max(0, @ - actualDamage),
                           !.stunMeter = Min(S.maxStun, @ + stunAdd)]
        stun == IF hit.stunMeter >= hit.maxStun /\ ~hit.isStunned
                THEN Opp_enterStun(hit, t) ELSE hit
    IN  IF S.state = "knocked-down" THEN S0
        ELSE IF S.state # "stunned" /\ S.state # "attacking" /\ block
        THEN [S0 EXCEPT !.state = "blocking",
                        !.timers = Append(@, [kind |-> "blockEnd", due |-> t + 400,
                                              type |-> "jab", dir |-> "left"]),
                        !.events = <<[ev |-> "onBlock"]>>]
        ELSE IF S.state # "stunned" /\ dodge
        THEN [S0 EXCEPT !.state = "dodging",
                        !.timers = Append(@, [kind |-> "dodgeEnd", due |-> t + 500,
                                              type |-> "jab", dir |-> "left"])]
        ELSE IF stun.hp <= 0 THEN Opp_knockdown(stun)
        ELSE stun

\* what takeDamage(amount, punchType) returns
Opp_takeDamageResult(S, amount, block, dodge) ==
    LET actualDamage == IF S.isStunned THEN Rnd(amount * 3, 2) ELSE amount
        none == [blocked |-> FALSE, dodged |-> FALSE, damage |-> 0,
                 knockdown |-> FALSE]
    IN  IF S.state = "knocked-down" THEN none
        ELSE IF S.state # "stunned" /\ S.state # "attacking" /\ block
        THEN [none EXCEPT !.blocked = TRUE]
        ELSE IF S.state # "stunned" /\ dodge
        THEN [none EXCEPT !.dodged = TRUE]
        ELSE [none EXCEPT !.damage = actualDamage,
                          !.knockdown = S.hp - actualDamage <= 0]

\* recover(hpPercent = 0.3) at time t
Opp_recover(S, t) ==
    [S EXCEPT !.hp = Rnd(S.maxHp * 3, 10), !.stunMeter = 0,
              !.isStunned = FALSE, !.state = "idle",
              !.nextAttackTime = t + 2000, !.events = <<>>]

\* _startAttack(now): type and direction are rolled, the next attack comes
\* after the telegraph and an interval between min and max
Opp_startAttack(S, t, type, direction, interval) ==
    LET f == OppFighters[S.currentFighter + 1]
        tDuration == Max(300, Rnd(S.telegraphDuration * 10, f.speed))
    IN  [S EXCEPT !.state = "telegraphing",
                  !.timers = Append(@, [kind |-> "telegraphEnd",
                                        due |-> t + tDuration,
                                        type |-> type, dir |-> direction]),
                  !.nextAttackTime = t + interval + tDuration]

\* aiUpdate(now)
Opp_aiUpdate(S, t, type, direction, interval) ==
    LET S0 == [S EXCEPT !.events = <<>>]
        S1 == IF S0.isStunned /\ t > S0.stunEndTime
              THEN [S0 EXCEPT !.isStunned = FALSE, !.stunMeter = 0,
                              !.state = "idle"]
              ELSE S0
        S2 == IF ~S1.isStunned /\ S1.stunMeter > 0
              THEN [S1 EXCEPT !.stunMeter = Max(0, @ - 3)]
              ELSE S1
    IN  IF S.state = "knocked-down" THEN S0
        ELSE IF S2.state = "idle" /\ ~S2.isStunned /\ t > S2.nextAttackTime
        THEN Opp_startAttack(S2, t, type, direction, interval)
        ELSE S2

\* the pending timer that fires next: the earliest due, the first set of those
Opp_nextTimer(S) ==
    CHOOSE i \in 1..Len(S.timers) :
        /\ \A j \in 1..Len(S.timers) : S.timers[i].due <= S.timers[j].due
        /\ \A j \in 1..(i - 1) : S.timers[j].due > S.timers[i].due

\* the callback of timer i runs at time t; counter and dir are the rolls of
\* the counter attack after a block
Opp_timerFires(S, i, counter, dir, t) ==
    LET tm   == S.timers[i]
        rest == [S EXCEPT !.timers = SubSeq(@, 1, i - 1)
                                       \o SubSeq(@, i + 1, Len(@)),
                          !.events = <<>>]
    IN  CASE tm.kind = "blockEnd" ->
               LET A == IF rest.state = "blocking"
                        THEN [rest EXCEPT !.state = "idle"] ELSE rest
               IN  IF counter THEN Opp_doAttack(A, "jab", dir, TRUE, t) ELSE A
          [] tm.kind = "dodgeEnd" ->
               IF rest.state = "dodging"
               THEN [rest EXCEPT !.state = "idle"] ELSE rest
          [] tm.kind = "telegraphEnd" ->
               IF rest.state = "telegraphing"
               THEN Opp_doAttack(rest, tm.type, tm.dir, FALSE, t) ELSE rest
          [] tm.kind = "comboSecond" ->
               [rest EXCEPT !.events = <<[ev |-> "onAttack", type |-> "hook",
                                          dir |-> tm.dir, isCounter |-> FALSE,
                                          state |-> rest.state,
                                          stunned |-> rest.isStunned]>>]
          [] OTHER ->
               IF rest.state = "attacking"
               THEN [rest EXCEPT !.state = "idle"] ELSE rest

OppMaxSteps == 5

OppDTs == {100, 3000}

OppPunches ==
    {[amount |-> 20, type |-> "uppercut"], [amount |-> 100, type |-> "jab"]}

OppAttackTypes == {"jab", "combo"}

OppDirs == {"left", "right"}

\* what every step of the opponent's page leaves alone, and its bookkeeping
Opp_Step(op) ==
    /\ frames < OppMaxSteps
    /\ frames' = frames + 1
    /\ oppLog' = [op |-> op, pre |-> opp.state, preStunned |-> opp.isStunned]
    /\ UNCHANGED <<fltVars, hcVars, fnVars, btVars, jab, gest, gcVars,
                   palmVars, lifeVars, snap, boot, gameVars>>

\* time passes with no call; a timer due earlier fires first
Opp_Wait(dt) ==
    /\ \A i \in 1..Len(opp.timers) : opp.timers[i].due >= now + dt
    /\ now' = now + dt
    /\ opp' = [opp EXCEPT !.events = <<>>]
    /\ Opp_Step("wait")

\* the pending timer that is due first fires
Opp_Timer(counter, dir) ==
    /\ opp.timers # <<>>
    /\ now' = Max(now, opp.timers[Opp_nextTimer(opp)].due)
    /\ opp' = Opp_timerFires(opp, Opp_nextTimer(opp), counter, dir, now')
    /\ Opp_Step("timer")

\* the player's punch lands: opponent.takeDamage
Opp_TakeDamage(punch, block, dodge) ==
    /\ opp' = Opp_takeDamage(opp, punch.amount, punch.type, block, dodge, now)
    /\ UNCHANGED now
    /\ Opp_Step("takeDamage")

\* the animation frame calls opponent.aiUpdate(now)
Opp_AiUpdate(type, dir, interval) ==
    /\ opp' = Opp_aiUpdate(opp, now, type, dir, interval)
    /\ UNCHANGED now
    /\ Opp_Step("aiUpdate")

\* the page calls opponent.recover()
Opp_Recover ==
    /\ opp' = Opp_recover(opp, now)
    /\ UNCHANGED now
    /\ Opp_Step("recover")

\* the page calls opponent.setFighter(index)
Opp_SetFighter(index) ==
    /\ opp' = Opp_setFighter(opp, index)
    /\ UNCHANGED now
    /\ Opp_Step("setFighter")

(***************************************************************************)
(* Fruit Ninja: detectGesture and detectHands                              *)
(***************************************************************************)
FN_detectGesture(lm) ==
    LET indexUp  == lm[8].y < lm[6].y
        middleUp == lm[12].y < lm[10].y
        ringUp   == lm[16].y < lm[14].y
        pinkyUp  == lm[20].y < lm[18].y
        thumbSpread == Dist2(lm[4], lm[5]) > 50 * 50
        middleDown == lm[12].y > lm[10].y
        ringDown   == lm[16].y > lm[14].y
        pinkyDown  == lm[20].y > lm[18].y
    IN  IF indexUp /\ middleUp /\ ringUp /\ pinkyUp /\ thumbSpread THEN "palm"
        ELSE IF indexUp /\ middleDown /\ ringDown /\ pinkyDown THEN "point"
        ELSE "none"

FN_NewSlot ==
    [filters |-> [x |-> NewFilter(1200, 5), y |-> NewFilter(1200, 5)],
     x |-> 0, y |-> 0, visible |-> FALSE, gesture |-> "none"]

FNConstructed ==
    /\ handData = <<FN_NewSlot, FN_NewSlot>>
    /\ palmVisible = FALSE
    /\ palmCursor = <<0, 0>>
    /\ fnFrame = [i \in 1..2 |-> [present |-> FALSE, rawX |-> Null, rawY |-> Null,
                                  wasVisible |-> FALSE, seen |-> FALSE]]

\* the raw position detectHands takes from a hand, by its gesture
FN_raw(lm) ==
    IF FN_detectGesture(lm) = "palm"
    THEN <<1000 - Rnd(lm[0].x + lm[9].x, 2), Rnd(lm[0].y + lm[9].y, 2)>>
    ELSE <<1000 - lm[8].x, lm[8].y>>

FN_SlotAbsent(h) == [h EXCEPT !.visible = FALSE]

\* the loop body of detectHands for one detected hand
FN_SlotPresent(h, lm, t) ==
    LET fx == Filter(h.filters.x, FN_raw(lm)[1], t)
        fy == Filter(h.filters.y, FN_raw(lm)[2], t)
    IN  [filters |-> [x |-> fx, y |-> fy], x |-> fx.xPrev, y |-> fy.xPrev,
         visible |-> TRUE, gesture |-> FN_detectGesture(lm)]

FNMaxFrames == 4

FNDTs == {20, 50}

FNPointHand == MkHand(300, 800, 0, <<"up", "curl", "curl", "curl">>, "tucked")

FNPalmHand == MkHand(700, 700, 0, <<"up", "up", "up", "up">>, "spread")

FNResults == {<<>>, <<FNPointHand>>, <<FNPalmHand>>, <<FNPalmHand, FNPointHand>>}

\* detectHands() on a new video frame
FN_detectHands(results, dt) ==
    /\ frames < FNMaxFrames
    /\ frames' = frames + 1
    /\ now' = now + dt
    /\ handData' = [i \in 1..2 |->
                      IF i <= Len(results)
                      THEN FN_SlotPresent(handData[i], results[i], now')
                      ELSE FN_SlotAbsent(handData[i])]
    /\ palmVisible' = \E i \in 1..Len(results) : FN_detectGesture(results[i]) = "palm"
    /\ palmCursor' =
          IF Len(results) > 1 /\ FN_detectGesture(results[2]) = "palm"
          THEN <<handData'[2].x, handData'[2].y>>
          ELSE IF Len(results) > 0 /\ FN_detectGesture(results[1]) = "palm"
               THEN <<handData'[1].x, handData'[1].y>>
               ELSE palmCursor
    /\ fnFrame' = [i \in 1..2 |->
                     [present |-> i <= Len(results),
                      rawX |-> IF i <= Len(results) THEN FN_raw(results[i])[1] ELSE Null,
                      rawY |-> IF i <= Len(results) THEN FN_raw(results[i])[2] ELSE Null,
                      wasVisible |-> handData[i].visible,
                      seen |-> fnFrame[i].seen \/ handData[i].visible]]
    /\ UNCHANGED <<fltVars, hcVars, btVars, auxVars>>

(***************************************************************************)
(* The per-frame gesture classifiers: Particle Forge analyzeGesture, the    *)
(* HUD demo analyzeGesture and Fruit Ninja detectGesture (defined above)    *)
(***************************************************************************)
\* Particle Forge analyzeGesture(lm)
PF_analyzeGesture(lm) ==
    LET pinch    == Dist3sq(lm[4], lm[8]) < 80 * 80
        indexUp  == lm[8].y < lm[5].y
        middleUp == lm[12].y < lm[9].y
        ringDown == lm[16].y > lm[13].y
        pinkyDown == lm[20].y > lm[17].y
        fist     == /\ lm[8].y > lm[5].y /\ lm[12].y > lm[9].y
                    /\ lm[16].y > lm[13].y /\ lm[20].y > lm[17].y
    IN  IF pinch THEN "pinch"
        ELSE IF fist THEN "fist"
        ELSE IF indexUp /\ ~middleUp /\ ringDown /\ pinkyDown THEN "point"
        ELSE IF indexUp /\ middleUp /\ ringDown /\ pinkyDown THEN "peace"
        ELSE "open"

\* HUD demo analyzeGesture(landmarks)
HUD_analyzeGesture(lm) ==
    IF Dist2(lm[4], lm[8]) < 80 * 80 THEN "pinch" ELSE "open"

FingerStates == {"up", "half", "curl"}

ThumbStates == {"pinch", "spread", "tucked"}

GestConstructed ==
    gest = [called |-> FALSE, fs |-> <<"up", "up", "up", "up">>,
            thumb |-> "spread", pf |-> "", hud |-> "", fn |-> "",
            hcFist |-> FALSE, btFist |-> FALSE]

\* one landmark set handed to each of the classifiers
ClassifyHand(fs, thumb) ==
    LET lm == MkHand(500, 800, 0, fs, thumb)
    IN  /\ gest' = [called |-> TRUE, fs |-> fs, thumb |-> thumb,
                    pf  |-> PF_analyzeGesture(lm),
                    hud |-> HUD_analyzeGesture(lm),
                    fn  |-> FN_detectGesture(lm),
                    hcFist |-> HC_isFistClosed(lm),
                    btFist |-> BT_isFistClosed(lm)]
        /\ UNCHANGED <<now, frames, fltVars, hcVars, fnVars, btVars, jab, gcVars, palmVars, lifeVars, snap,
                   lateVars>>

(***************************************************************************)
(* Particle Forge: onHandResults and handleGestureChange.  The drawing on   *)
(* the page (skeleton overlay, texts, colours) is left out; actions lists   *)
(* the calls that act on the particles or play a sound.                     *)
(***************************************************************************)
PF_NewLog ==
    [n |-> 0, hand |-> FALSE, label |-> "", pre |-> [currentGesture |-> "none",
     isGrabbing |-> FALSE, lastGestureChange |-> 0],
     acceptedAt |-> Null, acceptedBefore |-> Null, blocked |-> 0,
     pinchSince |-> Null]

PFConstructed ==
    /\ pf = [isHandPresent |-> FALSE, currentGesture |-> "none",
             isGrabbing |-> FALSE, lastGestureChange |-> 0, lastShapeCycle |-> 0,
             handFilters |-> [x |-> NewFilter(1000, 7), y |-> NewFilter(1000, 7),
                              z |-> NewFilter(1000, 7)],
             targetHandPos |-> <<0, 0, 0>>, fingerTipPos |-> <<0, 0, 0>>,
             grabStartHandPos |-> <<0, 0, 0>>, hudVisible |-> FALSE,
             actions |-> <<>>]
    /\ pfLog = PF_NewLog

PF_inGestureCooldownMut(S, t) == FALSE

\* now - lastGestureChange < 300
PF_inGestureCooldown(S, t) == t - S.lastGestureChange < 300

\* handleGestureChange(gesture) at t = Date.now()
PF_handleGestureChange(S, gesture, t) ==
    IF PF_inGestureCooldown(S, t) THEN S
    ELSE LET A == [S EXCEPT !.lastGestureChange = t, !.currentGesture = gesture]
         IN  CASE gesture = "pinch" ->
                    [A EXCEPT !.isGrabbing = TRUE,
                              !.grabStartHandPos = A.targetHandPos,
                              !.actions = Append(@, "playGrabSound")]
               [] gesture = "peace" ->
                    IF t - A.lastShapeCycle > 800
                    THEN [A EXCEPT !.isGrabbing = FALSE, !.lastShapeCycle = t,
                                   !.actions = Append(@, "cycleShape")]
                    ELSE [A EXCEPT !.isGrabbing = FALSE]
               [] gesture = "fist" ->
                    [A EXCEPT !.isGrabbing = FALSE,
                              !.actions = Append(@, "explodeParticles")]
               [] OTHER -> [A EXCEPT !.isGrabbing = FALSE]

\* onHandResults(results) with a hand
PF_Hand(S, lm, t) ==
    LET fx == Filter(S.handFilters.x, (500 - lm[0].x) * 20, t)
        fy == Filter(S.handFilters.y, (500 - lm[0].y) * 16, t)
        fz == Filter(S.handFilters.z, (500 - lm[0].z) * 12, t)
        A  == [S EXCEPT !.isHandPresent = TRUE,
                        !.handFilters = [x |-> fx, y |-> fy, z |-> fz],
                        !.targetHandPos = <<fx.xPrev, fy.xPrev, fz.xPrev>>,
                        !.fingerTipPos = <<(500 - lm[8].x) * 20,
                                           (500 - lm[8].y) * 16,
                                           (500 - lm[8].z) * 12>>,
                        !.actions = <<>>]
        gesture == PF_analyzeGesture(lm)
    IN  IF gesture # A.currentGesture
        THEN PF_handleGestureChange(A, gesture, t)
        ELSE A

\* onHandResults(results) without a hand
PF_NoHand(S) ==
    [S EXCEPT !.isHandPresent = FALSE, !.isGrabbing = FALSE,
              !.hudVisible = FALSE,
              !.handFilters = [x |-> Reset(S.handFilters.x),
                               y |-> Reset(S.handFilters.y),
                               z |-> Reset(S.handFilters.z)],
              !.actions = <<>>]

\* what the claims need to know of one call: the label the classifier gave,
\* the gesture state before the call, the times of the accepted transitions,
\* and since when every frame has held a hand labelled pinch
GC_logAfter(log, pre, post, label, hand, t) ==
    LET accepted == post.lastGestureChange # pre.lastGestureChange
    IN  [n |-> log.n + 1, hand |-> hand, label |-> label,
         pre |-> pre,
         acceptedAt |-> IF accepted THEN post.lastGestureChange ELSE log.acceptedAt,
         acceptedBefore |-> IF accepted THEN log.acceptedAt ELSE log.acceptedBefore,
         blocked |-> log.blocked
                     + (IF hand /\ label # pre.currentGesture /\ ~accepted
                        THEN 1 ELSE 0),
         pinchSince |-> IF hand /\ label = "pinch"
                        THEN (IF log.pinchSince = Null THEN t ELSE log.pinchSince)
                        ELSE Null]

PFMaxFrames == 4

GCDTs == {100, 200}

PFHands ==
    {MkHand(500, 800, 0, <<"up", "up", "up", "up">>, "pinch"),
     MkHand(520, 800, 0, <<"up", "up", "curl", "curl">>, "spread"),
     MkHand(500, 800, 0, <<"curl", "curl", "curl", "curl">>, "spread"),
     MkHand(520, 800, 0, <<"up", "curl", "curl", "curl">>, "spread"),
     MkHand(500, 800, 0, <<"up", "up", "up", "up">>, "spread")}

PFResults == {<<>>} \cup {<<lm>> : lm \in PFHands}

\* one video frame of Particle Forge: onHandResults(results), in a run of
\* at most maxFrames frames
PF_Frame(results, dt, maxFrames) ==
    /\ hudLog.n = 0
    /\ frames < maxFrames
    /\ frames' = frames + 1
    /\ now' = now + dt
    /\ pf' = IF Len(results) > 0 THEN PF_Hand(pf, results[1], now')
             ELSE PF_NoHand(pf)
    /\ pfLog' = GC_logAfter(pfLog,
                            [currentGesture |-> pf.currentGesture,
                             isGrabbing |-> pf.isGrabbing,
                             lastGestureChange |-> pf.lastGestureChange],
                            pf',
                            IF Len(results) > 0 THEN PF_analyzeGesture(results[1])
                            ELSE "",
                            Len(results) > 0, now')
    /\ UNCHANGED <<fltVars, hcVars, fnVars, btVars, jab, gest, hud, hudLog, palmVars, lifeVars, snap,
                   lateVars>>

PF_onHandResults(results, dt) == PF_Frame(results, dt, PFMaxFrames)

(***************************************************************************)
(* HUD demo: onResults and handleGestureChange                              *)
(***************************************************************************)
HUDConstructed ==
    /\ hud = [isHandPresent |-> FALSE, currentGesture |-> "none",
              isGrabbing |-> FALSE, lastGestureChange |-> 0,
              targetHandPosition |-> <<0, 0, 0>>, hudVisible |-> TRUE,
              actions |-> <<>>]
    /\ hudLog = PF_NewLog

\* now - lastGestureChangeTime < 200
HUD_inGestureCooldown(S, t) == t - S.lastGestureChange < 200

\* handleGestureChange(gesture) at t = Date.now()
HUD_handleGestureChange(S, gesture, t) ==
    IF HUD_inGestureCooldown(S, t) THEN S
    ELSE IF gesture = "pinch"
         THEN [S EXCEPT !.lastGestureChange = t, !.currentGesture = gesture,
                        !.isGrabbing = TRUE,
                        !.actions = Append(@, "OBJECT GRABBED")]
         ELSE [S EXCEPT !.lastGestureChange = t, !.currentGesture = gesture,
                        !.isGrabbing = FALSE,
                        !.actions = Append(@, "OBJECT RELEASED")]

\* onResults(results) with a hand
HUD_Hand(S, lm, t) ==
    LET A == [S EXCEPT !.isHandPresent = TRUE,
                       !.targetHandPosition = <<(500 - lm[0].x) * 18,
                                                (500 - lm[0].y) * 18,
                                                (500 - lm[0].z) * 12>>,
                       !.actions = <<>>]
        gesture == HUD_analyzeGesture(lm)
    IN  IF gesture # A.currentGesture
        THEN HUD_handleGestureChange(A, gesture, t)
        ELSE A

\* onResults(results) without a hand
HUD_NoHand(S) ==
    [S EXCEPT !.isHandPresent = FALSE, !.isGrabbing = FALSE,
              !.hudVisible = FALSE, !.actions = <<>>]

HUDMaxFrames == 5

HUDHands ==
    {MkHand(500, 800, 0, <<"up", "up", "up", "up">>, "pinch"),
     MkHand(520, 800, 0, <<"up", "up", "up", "up">>, "spread"),
     MkHand(480, 800, 0, <<"up", "up", "curl", "curl">>, "spread")}

HUDResults == {<<>>} \cup {<<lm>> : lm \in HUDHands}

\* one video frame of the HUD demo: onResults(results)
HUD_onResults(results, dt) ==
    /\ pfLog.n = 0
    /\ frames < HUDMaxFrames
    /\ frames' = frames + 1
    /\ now' = now + dt
    /\ hud' = IF Len(results) > 0 THEN HUD_Hand(hud, results[1], now')
              ELSE HUD_NoHand(hud)
    /\ hudLog' = GC_logAfter(hudLog,
                             [currentGesture |-> hud.currentGesture,
                              isGrabbing |-> hud.isGrabbing,
                              lastGestureChange |-> hud.lastGestureChange],
                             hud',
                             IF Len(results) > 0 THEN HUD_analyzeGesture(results[1])
                             ELSE "",
                             Len(results) > 0, now')
    /\ UNCHANGED <<fltVars, hcVars, fnVars, btVars, jab, gest, pf, pfLog, palmVars, lifeVars, snap,
                   lateVars>>

(***************************************************************************)
(* Flappy Finger: palm hover-to-select.  The detection loop (HandCursor     *)
(* _loop, which calls onPalmOpen when the primary hand shows an open palm)  *)
(* and the render loop (render, which calls updatePalmUI) are two           *)
(* requestAnimationFrame loops; a detection frame happens only when the     *)
(* camera delivered a new video frame.  The palm cursor position is kept as *)
(* the region of the page it is in.                                         *)
(***************************************************************************)
PALM_HOLD_TIME == 800

PalmConstructed ==
    /\ palmUI = [state |-> "menu", palmCursor |-> "away", palmVisible |-> FALSE,
                 palmHoverTarget |-> "null", palmHoverStartTime |-> 0,
                 palmHoverProgress |-> 0, calls |-> <<>>]
    /\ palmLog = [op |-> "none", streak |-> FALSE, firstRender |-> Null,
                  due |-> FALSE, started |-> 0]

\* onPalmOpen(x, y)
Palm_onPalmOpen(S, region) ==
    [S EXCEPT !.palmCursor = region, !.palmVisible = TRUE, !.calls = <<>>]

\* the button the palm cursor is over, as updatePalmUI finds it
Palm_currentTarget(S) ==
    IF S.palmCursor = "back" THEN "back"
    ELSE IF S.state = "menu" /\ S.palmCursor = "button" THEN "start"
    ELSE IF S.state = "dead" /\ S.palmCursor = "button" THEN "restart"
    ELSE "null"

\* palmHoverProgress = Math.min(1, (Date.now() - palmHoverStartTime) / 800),
\* in thousandths
Palm_progress(start, t) == Min(1000, ((t - start) * 1000) \div PALM_HOLD_TIME)

\* updatePalmUI() at t = Date.now()
Palm_updatePalmUI(S, t) ==
    IF ~S.palmVisible \/ S.state = "playing"
    THEN [S EXCEPT !.palmHoverTarget = "null", !.palmHoverProgress = 0,
                   !.palmVisible = FALSE, !.calls = <<>>]
    ELSE LET target == Palm_currentTarget(S)
             A == IF target # S.palmHoverTarget
                  THEN [S EXCEPT !.palmHoverTarget = target,
                                 !.palmHoverStartTime =
                                     IF target # "null" THEN t ELSE 0,
                                 !.palmHoverProgress = 0]
                  ELSE S
             progress == Palm_progress(A.palmHoverStartTime, t)
         IN  IF target = "null"
             THEN [A EXCEPT !.palmVisible = FALSE, !.calls = <<>>]
             ELSE IF progress >= 1000
             THEN [A EXCEPT !.palmHoverTarget = "null", !.palmHoverProgress = 0,
                            !.palmVisible = FALSE,
                            !.state = IF target = "back" THEN "left"
                                      ELSE "playing",
                            !.calls = IF target = "back" THEN <<"leave">>
                                      ELSE <<"startGame">>]
             ELSE [A EXCEPT !.palmHoverProgress = progress,
                            !.palmVisible = FALSE, !.calls = <<>>]

PalmMaxMs == 1400

PalmDTs == {50, 100}

PalmRegions == {"button", "back", "away", "nopalm"}

\* a detection frame: the primary hand shows an open palm in a region of the
\* page ("nopalm": no hand, or no open palm, and onPalmOpen is not called)
PalmDetect(region, dt) ==
    /\ palmUI.state # "left"
    /\ now + dt <= T0 + PalmMaxMs
    /\ now' = now + dt
    /\ frames' = frames + 1
    /\ palmUI' = IF region = "nopalm" THEN [palmUI EXCEPT !.calls = <<>>]
                 ELSE Palm_onPalmOpen(palmUI, region)
    /\ palmLog' = [palmLog EXCEPT
                      !.op = "detect",
                      !.due = FALSE,
                      !.streak = (region = "button"
                                  /\ palmUI.state \in {"menu", "dead"}),
                      !.firstRender = IF region = "button" /\ palmLog.streak
                                      THEN @ ELSE Null]
    /\ UNCHANGED <<fltVars, hcVars, fnVars, btVars, jab, gest, gcVars, lifeVars, snap,
                   lateVars>>

\* a render frame: render() calls updatePalmUI()
PalmRender(dt) ==
    /\ palmUI.state # "left"
    /\ now + dt <= T0 + PalmMaxMs
    /\ now' = now + dt
    /\ frames' = frames + 1
    /\ palmUI' = Palm_updatePalmUI(palmUI, now')
    /\ palmLog' = [palmLog EXCEPT
                      !.op = "render",
                      !.due = /\ palmLog.streak /\ palmLog.firstRender # Null
                              /\ now' - palmLog.firstRender >= PALM_HOLD_TIME,
                      !.streak = @ /\ palmUI'.calls = <<>>,
                      !.firstRender = IF ~palmLog.streak \/ palmUI'.calls # <<>>
                                      THEN Null
                                      ELSE IF @ = Null THEN now' ELSE @,
                      !.started = @ + (IF palmUI'.calls = <<"startGame">>
                                       THEN 1 ELSE 0)]
    /\ UNCHANGED <<fltVars, hcVars, fnVars, btVars, jab, gest, gcVars, lifeVars, snap,
                   lateVars>>

\* the bird hits a pipe or the ground: gameOver()
PalmGameOver ==
    /\ palmUI.state = "playing"
    /\ palmUI' = [palmUI EXCEPT !.state = "dead", !.calls = <<>>]
    /\ palmLog' = [palmLog EXCEPT !.op = "gameOver", !.due = FALSE,
                                  !.streak = FALSE, !.firstRender = Null]
    /\ UNCHANGED <<now, frames, fltVars, hcVars, fnVars, btVars, jab, gest, gcVars, lifeVars, snap,
                   lateVars>>

(***************************************************************************)
(* BoxingTracker                                                           *)
(***************************************************************************)
PUNCH_COOLDOWN_MS == 250

PUNCH_VELOCITY_THRESHOLD == 5

PUNCH_REACH_TIME == 400

MIN_PUNCH_TRAVEL == 20

GUARD_Y_THRESHOLD == 450

GUARD_X_RANGE == 250

DODGE_COOLDOWN_MS == 500

DODGE_X_THRESHOLD == 150

MAX_HISTORY == 5

Labels == {"left", "right"}

BT_NewHand(x) ==
    [x |-> x, y |-> 700, z |-> 0, prevZ |-> 0, prevX |-> x, prevY |-> 700,
     visible |-> FALSE, fistClosed |-> FALSE, armLength2 |-> Null,
     forwardZ |-> Null]

BT_NewPunchState ==
    [reaching |-> FALSE, startZ |-> 0, peakZ |-> 0, startTime |-> 0,
     startX |-> Null, startY |-> Null, extended |-> FALSE]

\* constructor()
BT_New ==
    [hands |-> [left |-> BT_NewHand(300), right |-> BT_NewHand(700)],
     punchCooldown |-> [left |-> 0, right |-> 0],
     punchState |-> [left |-> BT_NewPunchState, right |-> BT_NewPunchState],
     isGuarding |-> FALSE,
     guardStartTime |-> 0,
     dodgeDirection |-> "null",
     dodgeCooldown |-> 0,
     centerSmooth |-> 500,
     lastPunch |-> [hand |-> "null", type |-> "null", power |-> 0, time |-> 0,
                    reach |-> 0],
     history |-> [left |-> <<>>, right |-> <<>>],
     events |-> <<>>]

BTConstructed ==
    /\ bt = BT_New
    /\ btEvents = <<>>
    /\ btLog = [punchAt |-> [left |-> Null, right |-> Null],
                punchBefore |-> [left |-> Null, right |-> Null],
                dodgeAt |-> Null, dodgeBefore |-> Null,
                guardArg |-> "none", guardArgBefore |-> "none",
                wasGuarding |-> FALSE,
                pre |-> BT_New,
                present |-> [left |-> FALSE, right |-> FALSE],
                ran2 |-> [left |-> FALSE, right |-> FALSE],
                extBefore |-> [left |-> FALSE, right |-> FALSE],
                extSeen |-> [left |-> FALSE, right |-> FALSE],
                enteredAt |-> [left |-> Null, right |-> Null]]

\* the punch power of a completed punch, in thousandths
BT_power(type, travelDistance, yTravel, xTravel, elapsed, fistClosed) ==
    LET base == CASE type = "uppercut" -> 1600 + Min(yTravel * 4, 1400)
                  [] type = "hook" -> 1300 + Min(xTravel * 3, 1200)
                  [] OTHER -> 1000 + Min(travelDistance * 6, 1000)
    IN  base
        + (IF 10 * travelDistance > 3 * elapsed THEN 300 ELSE 0)
        + (IF 10 * travelDistance > 5 * elapsed THEN 300 ELSE 0)
        + (IF fistClosed THEN 200 ELSE 0)

BT_inCooldownMut(S, label, t) == FALSE

\* now - this.punchCooldown[label] < this.PUNCH_COOLDOWN_MS
BT_inCooldown(S, label, t) == t - S.punchCooldown[label] < PUNCH_COOLDOWN_MS

BT_peakZMut(peakZ, currentReach) == currentReach

\* phase 2: if (currentReach > state.peakZ) state.peakZ = currentReach
BT_peakZ(peakZ, currentReach) == Max(peakZ, currentReach)

BT_extendedMut(travelDistance, yTravel, xTravel, elapsed) ==
    \/ travelDistance > MIN_PUNCH_TRAVEL
    \/ yTravel > 30
    \/ xTravel > 30

\* isExtended: enough travel on one axis, or the reach is 100 ms old
BT_extended(travelDistance, yTravel, xTravel, elapsed) ==
    \/ travelDistance > MIN_PUNCH_TRAVEL
    \/ yTravel > 30
    \/ xTravel > 30
    \/ elapsed > 100

BT_punchCompleteMut(punchTimedOut, isExtended, armRetreating) == TRUE

\* punchComplete = punchTimedOut || (isExtended && armRetreating)
BT_punchComplete(punchTimedOut, isExtended, armRetreating) ==
    punchTimedOut \/ (isExtended /\ armRetreating)

BT_punchTypeMut(yTravel, xTravel, y) ==
    IF xTravel > 80 THEN "hook"
    ELSE IF yTravel > 80 /\ y < 450 THEN "uppercut" ELSE "jab"

\* the type of a completed punch: uppercut, else hook, else jab
BT_punchType(yTravel, xTravel, y) ==
    IF yTravel > 80 /\ y < 450 THEN "uppercut"
    ELSE IF xTravel > 80 THEN "hook" ELSE "jab"

\* _detectPunch(label, hand, landmarks, now)
BT_detectPunch(S, label, t) ==
    LET hand   == S.hands[label]
        hist   == S.history[label]
        state  == S.punchState[label]
        recent == hist[Len(hist)]
        older  == hist[Max(1, Len(hist) - 2)]
        zVelocity == older.z - recent.z
        yVelocity == older.y - recent.y
        xSpeed    == Abs(recent.x - older.x)
        currentReach == -hand.z
        peakZ  == BT_peakZ(state.peakZ, currentReach)
        travelDistance == peakZ - state.startZ
        yTravel == state.startY - hand.y
        xTravel == Abs(hand.x - state.startX)
        elapsed == t - state.startTime
        isExtended == BT_extended(travelDistance, yTravel, xTravel, elapsed)
        punchTimedOut == elapsed > PUNCH_REACH_TIME
        armRetreating == zVelocity < -10
        punchComplete == BT_punchComplete(punchTimedOut, isExtended,
                                          armRetreating)
        type == BT_punchType(yTravel, xTravel, hand.y)
        power == BT_power(type, travelDistance, yTravel, xTravel, elapsed,
                          hand.fistClosed)
    IN  IF BT_inCooldown(S, label, t) THEN S
        ELSE IF S.isGuarding THEN S
        ELSE IF Len(hist) < 3 THEN S
        ELSE IF ~state.reaching
        THEN IF \/ zVelocity > PUNCH_VELOCITY_THRESHOLD
                \/ (yVelocity > 20 /\ hand.y < 600)
                \/ xSpeed > 20
             THEN [S EXCEPT !.punchState[label] =
                      [reaching |-> TRUE, startZ |-> currentReach,
                       peakZ |-> currentReach, startTime |-> t,
                       startX |-> hand.x, startY |-> hand.y, extended |-> FALSE]]
             ELSE S
        ELSE IF punchComplete /\ isExtended
        THEN [S EXCEPT !.punchCooldown[label] = t,
                       !.lastPunch = [hand |-> label, type |-> type,
                                      power |-> power, time |-> t,
                                      reach |-> travelDistance],
                       !.events = Append(@, [ev |-> "onPunch", hand |-> label,
                                             type |-> type, power |-> power]),
                       !.punchState[label].peakZ = peakZ,
                       !.punchState[label].reaching = FALSE,
                       !.punchState[label].extended = FALSE]
        ELSE IF punchTimedOut /\ ~isExtended
        THEN [S EXCEPT !.punchState[label].peakZ = peakZ,
                       !.punchState[label].reaching = FALSE,
                       !.punchState[label].extended = FALSE]
        ELSE [S EXCEPT !.punchState[label].peakZ = peakZ]

\* the label update() gives a detected hand (the image is mirrored)
BT_label(r) == IF r.label = "Left" THEN "right" ELSE "left"

BT_processHandNoHistory(S, r, t) ==
    LET label == BT_label(r)
        lm    == r.lm
        old   == S.hands[label]
        hand  == [x |-> Rnd(lm[0].x + lm[9].x, 2),
                  y |-> Rnd(lm[0].y + lm[9].y, 2),
                  z |-> lm[0].z,
                  prevX |-> old.x, prevY |-> old.y, prevZ |-> old.z,
                  visible |-> TRUE,
                  fistClosed |-> BT_isFistClosed(lm),
                  armLength2 |-> Dist3sq(lm[0], lm[9]),
                  forwardZ |-> -lm[0].z]
    IN  BT_detectPunch([S EXCEPT !.hands[label] = hand], label, t)

\* the body of update()'s loop for one detected hand
BT_processHand(S, r, t) ==
    LET label == BT_label(r)
        lm    == r.lm
        old   == S.hands[label]
        hand  == [x |-> Rnd(lm[0].x + lm[9].x, 2),
                  y |-> Rnd(lm[0].y + lm[9].y, 2),
                  z |-> lm[0].z,
                  prevX |-> old.x, prevY |-> old.y, prevZ |-> old.z,
                  visible |-> TRUE,
                  fistClosed |-> BT_isFistClosed(lm),
                  armLength2 |-> Dist3sq(lm[0], lm[9]),
                  forwardZ |-> -lm[0].z]
        pushed == Append(S.history[label],
                         [x |-> hand.x, y |-> hand.y, z |-> hand.z, t |-> t])
        hist  == IF Len(pushed) > MAX_HISTORY THEN Tail(pushed) ELSE pushed
    IN  BT_detectPunch([S EXCEPT !.hands[label] = hand,
                                 !.history[label] = hist], label, t)

BT_updateGuardMut(S, t) ==
    LET L == S.hands.left
        R == S.hands.right
        shouldGuard == /\ L.y < GUARD_Y_THRESHOLD /\ R.y < GUARD_Y_THRESHOLD
                       /\ Abs(L.x - 500) < GUARD_X_RANGE
                       /\ Abs(R.x - 500) < GUARD_X_RANGE
                       /\ Abs(L.x - R.x) < 350
    IN  IF ~L.visible \/ ~R.visible
        THEN IF S.isGuarding
             THEN [S EXCEPT !.isGuarding = FALSE,
                            !.events = Append(@, [ev |-> "onGuardChange",
                                                  arg |-> FALSE])]
             ELSE S
        ELSE IF shouldGuard
        THEN [S EXCEPT !.isGuarding = TRUE, !.guardStartTime = t,
                       !.events = Append(@, [ev |-> "onGuardChange",
                                             arg |-> TRUE])]
        ELSE IF ~shouldGuard /\ S.isGuarding
        THEN [S EXCEPT !.isGuarding = FALSE,
                       !.events = Append(@, [ev |-> "onGuardChange",
                                             arg |-> FALSE])]
        ELSE S

BT_shouldGuardMut(L, R) ==
    /\ L.y < GUARD_Y_THRESHOLD /\ R.y < GUARD_Y_THRESHOLD
    /\ Abs(L.x - 500) < GUARD_X_RANGE
    /\ Abs(R.x - 500) < GUARD_X_RANGE

\* shouldGuard = bothHigh && bothCenter && handsClose
BT_shouldGuard(L, R) ==
    /\ L.y < GUARD_Y_THRESHOLD /\ R.y < GUARD_Y_THRESHOLD
    /\ Abs(L.x - 500) < GUARD_X_RANGE
    /\ Abs(R.x - 500) < GUARD_X_RANGE
    /\ Abs(L.x - R.x) < 350

\* _updateGuard(now)
BT_updateGuard(S, t) ==
    LET L == S.hands.left
        R == S.hands.right
        shouldGuard == BT_shouldGuard(L, R)
    IN  IF ~L.visible \/ ~R.visible
        THEN IF S.isGuarding
             THEN [S EXCEPT !.isGuarding = FALSE,
                            !.events = Append(@, [ev |-> "onGuardChange",
                                                  arg |-> FALSE])]
             ELSE S
        ELSE IF shouldGuard /\ ~S.isGuarding
        THEN [S EXCEPT !.isGuarding = TRUE, !.guardStartTime = t,
                       !.events = Append(@, [ev |-> "onGuardChange",
                                             arg |-> TRUE])]
        ELSE IF ~shouldGuard /\ S.isGuarding
        THEN [S EXCEPT !.isGuarding = FALSE,
                       !.events = Append(@, [ev |-> "onGuardChange",
                                             arg |-> FALSE])]
        ELSE S

BT_inDodgeCooldownMut(S, t) == FALSE

\* now - this.dodgeCooldown < this.DODGE_COOLDOWN_MS
BT_inDodgeCooldown(S, t) == t - S.dodgeCooldown < DODGE_COOLDOWN_MS

\* _updateDodge(now)
BT_updateDodge(S, t) ==
    LET L == S.hands.left
        R == S.hands.right
        count == (IF L.visible THEN 1 ELSE 0) + (IF R.visible THEN 1 ELSE 0)
        sum   == (IF L.visible THEN L.x ELSE 0) + (IF R.visible THEN R.x ELSE 0)
        avgX  == Rnd(sum, count)
        shift == avgX - 500
        newDodge == IF shift < -DODGE_X_THRESHOLD THEN "left"
                    ELSE IF shift > DODGE_X_THRESHOLD THEN "right" ELSE "null"
        smoothed == [S EXCEPT !.centerSmooth = Rnd(@ * 95 + avgX * 5, 100)]
    IN  IF BT_inDodgeCooldown(S, t) THEN S
        ELSE IF ~L.visible /\ ~R.visible
        THEN [S EXCEPT !.dodgeDirection = "null"]
        ELSE IF newDodge # "null" /\ newDodge # S.dodgeDirection
        THEN [smoothed EXCEPT !.dodgeDirection = newDodge,
                              !.dodgeCooldown = t,
                              !.events = Append(@, [ev |-> "onDodge",
                                                    dir |-> newDodge])]
        ELSE IF newDodge = "null"
        THEN [smoothed EXCEPT !.dodgeDirection = "null"]
        ELSE smoothed

BT_updateMut(S, results, t) ==
    LET S0 == [S EXCEPT !.hands.left.visible = FALSE,
                        !.hands.right.visible = FALSE,
                        !.events = <<>>]
        SE == [S0 EXCEPT !.history = [left |-> <<>>, right |-> <<>>],
                         !.punchState = [left |-> BT_NewPunchState,
                                         right |-> BT_NewPunchState]]
        S1 == IF Len(results) >= 1 THEN BT_processHand(S0, results[1], t) ELSE SE
        S2 == IF Len(results) >= 2 THEN BT_processHand(S1, results[2], t) ELSE S1
    IN  BT_updateDodge(BT_updateGuard(S2, t), t)

\* update(results) at time t = Date.now()
BT_update(S, results, t) ==
    LET S0 == [S EXCEPT !.hands.left.visible = FALSE,
                        !.hands.right.visible = FALSE,
                        !.events = <<>>]
        S1 == IF Len(results) >= 1 THEN BT_processHand(S0, results[1], t) ELSE S0
        S2 == IF Len(results) >= 2 THEN BT_processHand(S1, results[2], t) ELSE S1
    IN  BT_updateDodge(BT_updateGuard(S2, t), t)

\* the times of the last two onPunch of each hand, of the last two onDodge,
\* and the last two onGuardChange arguments, read off the fired events
RECURSIVE BT_logAfter(_, _, _)
BT_logAfter(log, evs, t) ==
    IF evs = <<>> THEN log
    ELSE LET e == Head(evs)
             l == CASE e.ev = "onPunch" ->
                         [log EXCEPT !.punchBefore[e.hand] = log.punchAt[e.hand],
                                     !.punchAt[e.hand] = t]
                    [] e.ev = "onDodge" ->
                         [log EXCEPT !.dodgeBefore = log.dodgeAt, !.dodgeAt = t]
                    [] OTHER ->
                         [log EXCEPT !.guardArgBefore = log.guardArg,
                                     !.guardArg = IF e.arg THEN "true"
                                                  ELSE "false"]
         IN  BT_logAfter(l, Tail(evs), t)

BTMaxFrames == 5

BPMaxFrames == 8

BTDTs == {60, 250}

BTHand(x, y, z) == MkHand(x + 10, y + 100, z, <<"curl", "curl", "curl", "curl">>, "tucked")

LRest == [label |-> "Right", lm |-> BTHand(300, 700, 0)]

LFwd == [label |-> "Right", lm |-> BTHand(300, 700, -50)]

LGuard == [label |-> "Right", lm |-> BTHand(400, 300, 0)]

RGuard == [label |-> "Left", lm |-> BTHand(600, 300, 0)]

RWide == [label |-> "Left", lm |-> BTHand(750, 700, 0)]

BTScenes == {<<>>, <<LRest>>, <<LFwd>>, <<LGuard, RGuard>>, <<RWide>>}

BPScenes == {<<LRest>>, <<LFwd>>}

\* whether the call of _detectPunch for this hand got past its early returns
\* and found the hand reaching (phase 2 of the punch state machine)
BT_ranPhase2(pre, post, results, label, t) ==
    /\ \E i \in 1..Len(results) : BT_label(results[i]) = label
    /\ ~BT_inCooldown(pre, label, t)
    /\ ~pre.isGuarding
    /\ Len(post.history[label]) >= 3
    /\ pre.punchState[label].reaching

\* isExtended as phase 2 evaluated it, read off the state the call left
BT_isExtended(post, label, t) ==
    LET state == post.punchState[label]
        hand  == post.hands[label]
    IN  \/ state.peakZ - state.startZ > MIN_PUNCH_TRAVEL
        \/ state.startY - hand.y > 30
        \/ Abs(hand.x - state.startX) > 30
        \/ t - state.startTime > 100

\* what the claims need to know of one update: the tracker before it, which
\* hands it was given, the time of the update that entered the last reach and
\* whether the current reach was ever extended
BT_obsAfter(log, pre, post, results, t) ==
    LET present == [h \in Labels |->
                      \E i \in 1..Len(results) : BT_label(results[i]) = h]
        ran2    == [h \in Labels |-> BT_ranPhase2(pre, post, results, h, t)]
    IN  [log EXCEPT
            !.wasGuarding = pre.isGuarding,
            !.pre = pre,
            !.present = present,
            !.ran2 = ran2,
            !.enteredAt = [h \in Labels |->
                             IF post.punchState[h].reaching
                                /\ ~pre.punchState[h].reaching
                             THEN t ELSE log.enteredAt[h]],
            !.extBefore = log.extSeen,
            !.extSeen = [h \in Labels |->
                           /\ post.punchState[h].reaching
                           /\ pre.punchState[h].reaching
                           /\ \/ log.extSeen[h]
                              \/ ran2[h] /\ BT_isExtended(post, h, t)]]

\* update(results) called dt after the previous call
BT_Call(results, dt) ==
    /\ now' = now + dt
    /\ bt' = BT_update(bt, results, now')
    /\ btEvents' = bt'.events
    /\ btLog' = BT_obsAfter(BT_logAfter(btLog, bt'.events, now'),
                            bt, bt', results, now')

\* one detection frame handed to BoxingTracker.update
BT_Frame(results, dt, maxFrames) ==
    /\ frames < maxFrames
    /\ frames' = frames + 1
    /\ BT_Call(results, dt)
    /\ UNCHANGED <<fltVars, hcVars, fnVars, auxVars>>

(***************************************************************************)
(* KNOCKOUT: GameEngine (game.js) and the page that wires it to the        *)
(* BoxingTracker and the OpponentAI (games/boxing/app.js).  A page state W *)
(* is the engine with the opponent it calls back into.  Times in ms,       *)
(* stamina in hundredths, punch power in thousandths.  game.timers is the  *)
(* list of pending setTimeout callbacks of the engine and of the page, in  *)
(* the order they were set; game.over lists the _gameOver calls of the     *)
(* last step and game.attacks the opponent.onAttack calls it handled.      *)
(***************************************************************************)
STAMINA_REGEN == 15

STAMINA_PUNCH_COST == 1200

STAMINA_GUARD_DRAIN == 8

PUNCH_DAMAGE(type) ==
    CASE type = "hook" -> 14 [] type = "uppercut" -> 20 [] OTHER -> 8

OPP_DAMAGE(type) ==
    CASE type = "hook" -> 16 [] type = "uppercut" -> 22
      [] type = "combo" -> 28 [] OTHER -> 10

\* constructor()
Game_New ==
    [state |-> "menu", round |-> 1, maxRounds |-> 3, roundTime |-> 120000,
     roundTimer |-> 120000, lastTick |-> 0,
     player |-> [hp |-> 100, maxHp |-> 100, stamina |-> 10000,
                 maxStamina |-> 10000, score |-> 0, roundsWon |-> 0,
                 totalPunches |-> 0, punchesLanded |-> 0, knockdowns |-> 0,
                 damageDealt |-> 0, damageTaken |-> 0],
     oppRoundsWon |-> 0, knockdownCount |-> 0, maxKnockdowns |-> 3,
     timers |-> <<>>, over |-> <<>>, attacks |-> <<>>]

GameConstructed ==
    /\ game = Game_New
    /\ gameLog = [op |-> "new", pre |-> Game_New]

Game_setTimeout(G, kind, t, delay) ==
    [G EXCEPT !.timers = Append(@, [kind |-> kind, due |-> t + delay])]

\* game.onRoundStart: the opponent of this round
App_onRoundStart(O, round) ==
    Opp_setFighter(O, Min(round - 1, Len(OppFighters) - 1))

\* game.onRoundEnd: the higher share of hp left wins, the player on a tie
App_onRoundEnd(W) ==
    IF W.game.player.hp * W.opp.maxHp >= Max(0, W.opp.hp) * W.game.player.maxHp
    THEN "player" ELSE "opponent"

\* _startRound() at time t
Game_startRound(W, t) ==
    LET G == [W.game EXCEPT !.state = "countdown",
                            !.roundTimer = W.game.roundTime,
                            !.knockdownCount = 0,
                            !.player.hp = W.game.player.maxHp,
                            !.player.stamina = W.game.player.maxStamina]
    IN  [game |-> Game_setTimeout(G, "countdown", t, 1500),
         opp  |-> App_onRoundStart(W.opp, G.round)]

\* startGame() at time t
Game_startGame(W, t) ==
    Game_startRound(
        [W EXCEPT !.game.round = 1, !.game.oppRoundsWon = 0,
                  !.game.knockdownCount = 0,
                  !.game.player = [@ EXCEPT !.hp = W.game.player.maxHp,
                                            !.stamina = W.game.player.maxStamina,
                                            !.score = 0, !.roundsWon = 0,
                                            !.totalPunches = 0,
                                            !.punchesLanded = 0,
                                            !.knockdowns = 0,
                                            !.damageDealt = 0,
                                            !.damageTaken = 0]], t)

\* _gameOver(playerWins)
Game_gameOver(G, playerWins) ==
    [G EXCEPT !.state = "gameover",
              !.over = Append(@, [playerWins |-> playerWins,
                                  roundsWon |-> G.player.roundsWon,
                                  oppRoundsWon |-> G.oppRoundsWon,
                                  round |-> G.round])]

Game_endRoundMut(W, t) ==
    Game_setTimeout([W.game EXCEPT !.state = "round-end",
                                   !.player.roundsWon = @ + 1,
                                   !.oppRoundsWon = @ + 1],
                    "roundEnd", t, 2000)

\* _endRound() at time t: the round's time is up
Game_endRound(W, t) ==
    LET G == [W.game EXCEPT !.state = "round-end"]
        scored == IF App_onRoundEnd(W) = "player"
                  THEN [G EXCEPT !.player.roundsWon = @ + 1]
                  ELSE [G EXCEPT !.oppRoundsWon = @ + 1]
    IN  Game_setTimeout(scored, "roundEnd", t, 2000)

Game_tickMut(W, t) ==
    LET G  == W.game
        G1 == [G EXCEPT !.lastTick = t,
                        !.roundTimer = Max(0, @ - (t - G.lastTick)),
                        !.player.stamina = Min(G.player.maxStamina,
                                               @ + STAMINA_REGEN)]
    IN  IF G1.roundTimer <= 0
        THEN Game_endRound([W EXCEPT !.game = G1], t) ELSE G1

\* tick(now)
Game_tick(W, t) ==
    LET G  == W.game
        G1 == [G EXCEPT !.lastTick = t,
                        !.roundTimer = Max(0, @ - (t - G.lastTick)),
                        !.player.stamina = Min(G.player.maxStamina,
                                               @ + STAMINA_REGEN)]
    IN  IF G.state # "fighting" THEN G
        ELSE IF G1.roundTimer <= 0
        THEN Game_endRound([W EXCEPT !.game = G1], t) ELSE G1

\* playerPunch(type, power): the engine after the call and what it returned
Game_playerPunch(G, type, power) ==
    IF G.state # "fighting" THEN [game |-> G, result |-> "null", damage |-> 0]
    ELSE IF 2 * G.player.stamina < STAMINA_PUNCH_COST
    THEN [game |-> G, result |-> "no-stamina", damage |-> 0]
    ELSE [game |-> [G EXCEPT !.player.stamina = Max(0, @ - STAMINA_PUNCH_COST),
                             !.player.totalPunches = @ + 1],
          result |-> "success",
          damage |-> Rnd(PUNCH_DAMAGE(type) * power, 1000)]

\* recordHit(damage)
Game_recordHit(G, damage) ==
    [G EXCEPT !.player.punchesLanded = @ + 1,
              !.player.damageDealt = @ + damage,
              !.player.score = @ + damage * 10]

\* _playerKnockdown() at time t
Game_playerKnockdown(G, t) ==
    Game_setTimeout([G EXCEPT !.state = "knockdown", !.oppRoundsWon = @ + 1],
                    "playerDown", t, 2500)

\* playerTakeDamage(type, isGuarding) at time t
Game_playerTakeDamage(G, type, isGuarding, t) ==
    LET baseDamage == OPP_DAMAGE(type)
        damage == IF isGuarding THEN Rnd(baseDamage, 4) ELSE baseDamage
        G1 == IF isGuarding
              THEN [G EXCEPT !.player.stamina = Max(0, @ - 800)] ELSE G
        G2 == [G1 EXCEPT !.player.hp = Max(0, @ - damage),
                         !.player.damageTaken = @ + damage]
    IN  IF G.state # "fighting" THEN G
        ELSE IF G2.player.hp <= 0 THEN Game_playerKnockdown(G2, t)
        ELSE G2

\* opponentKnockdown() at time t; it returns 'tko' on the third knockdown of
\* the round
Game_opponentKnockdown(G, t) ==
    LET G1 == [G EXCEPT !.knockdownCount = @ + 1,
                        !.player.knockdowns = @ + 1,
                        !.player.score = @ + 500]
    IN  IF G1.knockdownCount >= G1.maxKnockdowns
        THEN Game_setTimeout([G1 EXCEPT !.state = "round-end",
                                        !.player.roundsWon = @ + 1],
                             "tko", t, 3000)
        ELSE Game_setTimeout([G1 EXCEPT !.state = "knockdown"],
                             "getUp", t, 3000)

\* drainGuardStamina()
Game_drainGuardStamina(G) ==
    IF G.state # "fighting" THEN G
    ELSE [G EXCEPT !.player.stamina = Max(0, @ - STAMINA_GUARD_DRAIN)]

\* handleKnockdown() at time t: the opponent recovers 3 s after a knockdown
\* that is not a TKO
App_handleKnockdown(G, t) ==
    LET G1 == Game_opponentKnockdown(G, t)
    IN  IF G1.state = "round-end" THEN G1
        ELSE Game_setTimeout(G1, "recover", t, 3000)

\* boxing.onPunch(hand, type, power, hx, hy) at time t; block and dodge are
\* the opponent's rolls
App_onPunch(W, type, power, hx, hy, block, dodge, t) ==
    LET thrown == Game_playerPunch(W.game, type, power)
        inZone == Abs((1000 - hx) - 500) < 250 /\ hy < 550
        O1     == Opp_takeDamage(W.opp, thrown.damage, type, block, dodge, t)
        oppResult == Opp_takeDamageResult(W.opp, thrown.damage, block, dodge)
        G1 == Game_recordHit(thrown.game, oppResult.damage)
    IN  IF W.game.state # "fighting" \/ thrown.result # "success" THEN W
        ELSE IF ~inZone THEN [W EXCEPT !.game = thrown.game]
        ELSE IF oppResult.blocked \/ oppResult.dodged
        THEN [game |-> thrown.game, opp |-> O1]
        ELSE IF oppResult.knockdown
        THEN [game |-> App_handleKnockdown(G1, t), opp |-> O1]
        ELSE [game |-> G1, opp |-> O1]

\* the dodge check of opponent.onAttack
App_dodged(playerDodge, direction) ==
    \/ playerDodge = "left" /\ direction = "right"
    \/ playerDodge = "right" /\ direction = "left"
    \/ playerDodge # "null"

\* opponent.onAttack(type, direction, isCounter) at time t, B the tracker
App_onAttack(G, B, type, direction, isCounter, t) ==
    LET dodged == App_dodged(B.dodgeDirection, direction)
        seen   == [playerDodge |-> B.dodgeDirection, direction |-> direction,
                   dodged |-> dodged, hpBefore |-> G.player.hp,
                   hpAfter |-> G.player.hp]
        G1 == Game_playerTakeDamage(G, type, B.isGuarding, t)
        G2 == IF B.isGuarding THEN [G1 EXCEPT !.player.score = @ + 25] ELSE G1
    IN  IF G.state # "fighting" THEN G
        ELSE IF dodged
        THEN [G EXCEPT !.player.score = @ + 50, !.attacks = Append(@, seen)]
        ELSE [G2 EXCEPT !.attacks =
                  Append(@, [seen EXCEPT !.hpAfter = G2.player.hp])]

\* the page's handler run on each onAttack the opponent invoked
RECURSIVE App_attacks(_, _, _, _)
App_attacks(G, B, evs, t) ==
    IF evs = <<>> THEN G
    ELSE LET e == Head(evs)
         IN  App_attacks(IF e.ev = "onAttack"
                         THEN App_onAttack(G, B, e.type, e.dir, e.isCounter, t)
                         ELSE G,
                         B, Tail(evs), t)

\* the page's handler run on each onPunch the tracker fired
RECURSIVE App_punches(_, _, _, _, _, _)
App_punches(W, B, evs, block, dodge, t) ==
    IF evs = <<>> THEN W
    ELSE LET e == Head(evs)
         IN  App_punches(IF e.ev = "onPunch"
                         THEN App_onPunch(W, e.type, e.power, B.hands[e.hand].x,
                                          B.hands[e.hand].y, block, dodge, t)
                         ELSE W,
                         B, Tail(evs), block, dodge, t)

\* the callback of the engine's or the page's timer i runs at time t
Game_timerFires(W, i, t) ==
    LET tm == W.game.timers[i]
        G  == [W.game EXCEPT !.timers = SubSeq(@, 1, i - 1)
                                          \o SubSeq(@, i + 1, Len(@))]
        W1 == [W EXCEPT !.game = G]
        next == Game_startRound([W1 EXCEPT !.game.round = @ + 1], t)
    IN  CASE tm.kind = "countdown" ->
               [W1 EXCEPT !.game = Game_setTimeout(G, "fight", t, 800)]
          [] tm.kind = "fight" ->
               [W1 EXCEPT !.game.state = "fighting", !.game.lastTick = t]
          [] tm.kind = "playerDown" ->
               IF G.oppRoundsWon >= 2 \/ G.round >= G.maxRounds
               THEN [W1 EXCEPT !.game = Game_gameOver(G, FALSE)] ELSE next
          [] tm.kind = "tko" ->
               IF G.player.roundsWon >= 2 \/ G.round >= G.maxRounds
               THEN [W1 EXCEPT !.game = Game_gameOver(G, TRUE)] ELSE next
          [] tm.kind = "getUp" ->
               IF G.state = "knockdown"
               THEN [W1 EXCEPT !.game.state = "fighting", !.game.lastTick = t]
               ELSE W1
          [] tm.kind = "roundEnd" ->
               IF \/ G.player.roundsWon >= 2 \/ G.oppRoundsWon >= 2
                  \/ G.round >= G.maxRounds
               THEN [W1 EXCEPT !.game =
                        Game_gameOver(G, G.player.roundsWon > G.oppRoundsWon)]
               ELSE next
          [] OTHER ->
               [W1 EXCEPT !.opp = Opp_recover(W.opp, t)]

GameMaxSteps == 5

GameDTs == {3000, 120000}

GameFrameDt == 60

GameScenes == {<<LGuard, RGuard>>, <<RWide>>}

GamePunches == {[type |-> "uppercut", power |-> 3000, hx |-> 500, hy |-> 300]}

GameRolls ==
    {[block |-> FALSE, dodge |-> FALSE], [block |-> TRUE, dodge |-> FALSE]}

GameAttacks ==
    {[type |-> "jab", dir |-> "left"], [type |-> "combo", dir |-> "right"]}

RingRolls == {[block |-> FALSE, dodge |-> FALSE]}

RingAttacks == {[type |-> "combo", dir |-> "right"]}

\* the page as the handlers find it, with the logs of the last step cleared
Page ==
    [game |-> [game EXCEPT !.over = <<>>, !.attacks = <<>>],
     opp  |-> [opp EXCEPT !.events = <<>>]]

\* no pending timer is due before time t
Game_quietUntil(t) ==
    /\ \A i \in 1..Len(game.timers) : game.timers[i].due >= t
    /\ \A i \in 1..Len(opp.timers) : opp.timers[i].due >= t

\* what every step of the page leaves alone, and its bookkeeping
Game_Step(op) ==
    /\ gameLog' = [op |-> op, pre |-> game]
    /\ oppLog' = [op |-> op, pre |-> opp.state, preStunned |-> opp.isStunned]
    /\ UNCHANGED <<fltVars, hcVars, fnVars, jab, gest, gcVars, palmVars,
                   lifeVars, snap, boot>>

\* what the page's user and its animation frames do is counted
Game_Input(op) ==
    /\ frames < GameMaxSteps
    /\ frames' = frames + 1
    /\ Game_Step(op)

\* a click on the start button or on the restart button, which show on the
\* start screen and on the game-over screen
App_Start ==
    /\ game.state \in {"menu", "gameover"}
    /\ LET W == Game_startGame(Page, now)
       IN  game' = W.game /\ opp' = W.opp
    /\ UNCHANGED <<now, btVars>>
    /\ Game_Input("startGame")

\* gameLoop(), dt after the last event: updatePalmUI (select says that the
\* palm has been held over the shown button for PALM_HOLD_TIME), game.tick,
\* opponent.aiUpdate and the guard's stamina drain; attack is the
\* opponent's roll
App_gameLoop(dt, select, attack) ==
    /\ Game_quietUntil(now + dt)
    /\ select => game.state \in {"menu", "gameover"}
    /\ now' = now + dt
    /\ LET W0 == IF select THEN Game_startGame(Page, now') ELSE Page
           G1 == Game_tick(W0, now')
           fighting == G1.state = "fighting"
           O1 == IF fighting
                 THEN Opp_aiUpdate(W0.opp, now', attack.type, attack.dir,
                                   W0.opp.attackInterval.min)
                 ELSE W0.opp
           G2 == IF fighting /\ bt.isGuarding
                 THEN Game_drainGuardStamina(G1) ELSE G1
       IN  game' = G2 /\ opp' = O1
    /\ UNCHANGED btVars
    /\ Game_Input("gameLoop")

\* the tracker's onResults: boxing.update(results), whose onPunch calls run
\* the page's handler
App_onResults(results, rolls) ==
    /\ Game_quietUntil(now + GameFrameDt)
    /\ BT_Call(results, GameFrameDt)
    /\ LET W == App_punches(Page, bt', bt'.events, rolls.block, rolls.dodge, now')
       IN  game' = W.game /\ opp' = W.opp
    /\ Game_Input("onResults")

\* boxing.onPunch called with a punch the tracker has detected
App_Punch(punch, rolls) ==
    /\ LET W == App_onPunch(Page, punch.type, punch.power, punch.hx, punch.hy,
                            rolls.block, rolls.dodge, now)
       IN  game' = W.game /\ opp' = W.opp
    /\ UNCHANGED <<now, btVars>>
    /\ Game_Input("onPunch")

\* the pending timer of the engine or the page that is due first fires
App_GameTimer ==
    /\ game.timers # <<>>
    /\ LET i == Opp_nextTimer(game)
       IN  /\ \A j \in 1..Len(opp.timers) : opp.timers[j].due >= game.timers[i].due
           /\ now' = Max(now, game.timers[i].due)
           /\ LET W == Game_timerFires(Page, i, now')
              IN  game' = W.game /\ opp' = W.opp
    /\ UNCHANGED <<frames, btVars>>
    /\ Game_Step("timer")

\* the pending timer of the opponent that is due first fires; the page
\* handles the onAttack it invokes
App_OppTimer(counter, dir) ==
    /\ opp.timers # <<>>
    /\ LET i == Opp_nextTimer(opp)
       IN  /\ \A j \in 1..Len(game.timers) : game.timers[j].due >= opp.timers[i].due
           /\ now' = Max(now, opp.timers[i].due)
           /\ opp' = Opp_timerFires(Page.opp, i, counter, dir, now')
           /\ game' = App_attacks(Page.game, bt, opp'.events, now')
    /\ UNCHANGED <<frames, btVars>>
    /\ Game_Step("oppTimer")

(***************************************************************************)
(* Two hands at and around the limits of the guard pose                    *)
(***************************************************************************)
GuardMaxFrames == 3

GuardDt == 60

GuardLXs == {250, 300, 400}

GuardRXs == {600, 650}

GuardYs == {300, 450}

GuardScenes ==
    {<<>>, <<LGuard>>}
    \cup {<<[label |-> "Right", lm |-> BTHand(lx, ly, 0)],
            [label |-> "Left", lm |-> BTHand(rx, ry, 0)]>> :
            lx \in GuardLXs, ly \in GuardYs, rx \in GuardRXs, ry \in GuardYs}

(***************************************************************************)
(* One jab fed to BoxingTracker.update: a single hand, x and y fixed, rests *)
(* for r frames, moves its wrist JabReach toward the camera in n frames     *)
(* over JabStrokeMs, comes back to rest in n or 2n frames and stays there.  *)
(***************************************************************************)
JabReach == 50

JabStrokeMs == 150

JabAfterMs == 600

JabSteps == {2, 3, 5}

JabRestFrames == {1, 2, 3}

JabHands == {[label |-> "Right", x |-> 300], [label |-> "Left", x |-> 700]}

JabConstructed ==
    jab = [started |-> FALSE, done |-> FALSE, k |-> 0, punches |-> 0,
           types |-> {},
           cfg |-> [n |-> 0, r |-> 0, back |-> 0, hand |-> [label |-> "", x |-> 0]]]

\* the frame interval of a script
JabDt(cfg) == JabStrokeMs \div cfg.n

\* the number of frames of a script
JabLen(cfg) == cfg.r + cfg.n + cfg.back + ((JabAfterMs + JabDt(cfg) - 1) \div JabDt(cfg))

\* the wrist z of frame k (0, 1, ...) of a script
JabZ(cfg, k) ==
    IF k < cfg.r THEN 0
    ELSE IF k < cfg.r + cfg.n THEN -Rnd(JabReach * (k - cfg.r + 1), cfg.n)
    ELSE IF k < cfg.r + cfg.n + cfg.back
         THEN -JabReach + Rnd(JabReach * (k - cfg.r - cfg.n + 1), cfg.back)
         ELSE 0

\* the next frame of the script handed to BoxingTracker.update
JabFrame(n, r, m, h) ==
    LET cfg == IF jab.started THEN jab.cfg
               ELSE [n |-> n, r |-> r, back |-> m * n, hand |-> h]
        lm  == BTHand(cfg.hand.x, 700, JabZ(cfg, jab.k))
    IN  /\ ~jab.done
        /\ frames' = frames + 1
        /\ BT_Call(<<[label |-> cfg.hand.label, lm |-> lm]>>, JabDt(cfg))
        /\ jab' = [started |-> TRUE,
                   done    |-> jab.k + 1 >= JabLen(cfg),
                   k       |-> jab.k + 1,
                   punches |-> jab.punches
                               + Len(SelectSeq(bt'.events,
                                               LAMBDA e : e.ev = "onPunch")),
                   types   |-> jab.types
                               \cup {bt'.events[i].type :
                                       i \in {j \in 1..Len(bt'.events) :
                                                bt'.events[j].ev = "onPunch"}},
                   cfg     |-> cfg]
        /\ UNCHANGED <<fltVars, hcVars, fnVars, gest, gcVars, palmVars, lifeVars, snap,
                   lateVars>>

(***************************************************************************)
(* The read accessors.  An object the page holds is a handle: alias tells   *)
(* whether it is the tracker's own object (a shared reference) or an object *)
(* of its own, obj is the content it was created with or last written.      *)
(***************************************************************************)
\* getPosition(): { ...this.cursor, pinching, pointing } is a new object;
\* return this.cursor would hand out the tracker's own
HC_getPositionShared(c) == [alias |-> TRUE, obj |-> c]

HC_getPosition(c) == [alias |-> FALSE, obj |-> c]

\* what getFistPositions() reads of one hand (forwardZ || 0)
BT_fistView(S, label) ==
    [x |-> S.hands[label].x, y |-> S.hands[label].y,
     visible |-> S.hands[label].visible,
     closed |-> S.hands[label].fistClosed,
     reaching |-> S.punchState[label].reaching,
     forwardZ |-> IF S.hands[label].forwardZ = Null THEN 0
                  ELSE S.hands[label].forwardZ]

\* getFistPositions(): a new object holding a new object per hand
BT_getFistPositions(S) ==
    [h \in Labels |-> [alias |-> FALSE, obj |-> BT_fistView(S, h)]]

\* what the page reads through a handle
Deref(h, own) == IF h.alias THEN own ELSE h.obj

SnapConstructed ==
    snap = [who |-> "none", op |-> "none", gets |-> 0, writes |-> 0,
            pos |-> [alias |-> FALSE, obj |-> Null],
            fists |-> [h \in Labels |-> [alias |-> FALSE, obj |-> Null]],
            seen |-> Null, ownerChanged |-> FALSE, framesAt |-> 0]

SnapMaxGets == 2

SnapMaxWrites == 1

SnapMaxFrames == 3

SnapXs == {100, 900}

SnapResults == {<<>>, <<HCPinchHand>>, <<HCOpenHand>>}

SnapScenes == {<<>>, <<LFwd>>, <<LGuard, RGuard>>}

SnapDt == 50

\* the page calls cursor.getPosition()
SnapGetPosition ==
    /\ snap.who \in {"none", "cursor"}
    /\ snap.gets < SnapMaxGets
    /\ snap' = [snap EXCEPT !.who = "cursor", !.op = "get", !.gets = @ + 1,
                            !.pos = HC_getPosition(cursor),
                            !.seen = Deref(HC_getPosition(cursor), cursor),
                            !.ownerChanged = FALSE, !.framesAt = frames]
    /\ UNCHANGED <<now, frames, fltVars, hcVars, fnVars, btVars, jab, gest,
                   gcVars, palmVars, lifeVars, lateVars>>

\* the page writes returned.x = x
SnapWritePosition(x) ==
    /\ snap.who = "cursor" /\ snap.gets > 0
    /\ snap.writes < SnapMaxWrites
    /\ cursor' = IF snap.pos.alias THEN [cursor EXCEPT !.x = x] ELSE cursor
    /\ snap' = [snap EXCEPT !.op = "write", !.writes = @ + 1,
                            !.pos = IF snap.pos.alias THEN @
                                    ELSE [@ EXCEPT !.obj.x = x],
                            !.seen = [Deref(snap.pos, cursor) EXCEPT !.x = x],
                            !.ownerChanged = (cursor' # cursor),
                            !.framesAt = frames]
    /\ UNCHANGED <<now, frames, fltVars, secondHand, filters, pinchStartTime,
                   hcEvents, hcFrame, hcRun, fnVars, btVars, jab, gest, gcVars,
                   palmVars, lifeVars, lateVars>>

\* a detection frame of the HandCursor whose position the page holds
SnapCursorFrame(results, dt) ==
    /\ snap.who = "cursor"
    /\ frames < SnapMaxFrames
    /\ HC_onResults(results, dt)

\* the page calls boxing.getFistPositions()
SnapGetFistPositions ==
    /\ snap.who \in {"none", "boxing"}
    /\ snap.gets < SnapMaxGets
    /\ snap' = [snap EXCEPT !.who = "boxing", !.op = "get", !.gets = @ + 1,
                            !.fists = BT_getFistPositions(bt),
                            !.seen = [h \in Labels |->
                                        Deref(BT_getFistPositions(bt)[h],
                                              BT_fistView(bt, h))],
                            !.ownerChanged = FALSE, !.framesAt = frames]
    /\ UNCHANGED <<now, frames, fltVars, hcVars, fnVars, btVars, jab, gest,
                   gcVars, palmVars, lifeVars, lateVars>>

\* the page writes returned[label].x = x
SnapWriteFist(label, x) ==
    /\ snap.who = "boxing" /\ snap.gets > 0
    /\ snap.writes < SnapMaxWrites
    /\ bt' = IF snap.fists[label].alias THEN [bt EXCEPT !.hands[label].x = x]
             ELSE bt
    /\ snap' = [snap EXCEPT !.op = "write", !.writes = @ + 1,
                            !.fists[label] = IF @.alias THEN @
                                             ELSE [@ EXCEPT !.obj.x = x],
                            !.seen[label] =
                                [Deref(snap.fists[label], BT_fistView(bt, label))
                                   EXCEPT !.x = x],
                            !.ownerChanged = (bt' # bt),
                            !.framesAt = frames]
    /\ UNCHANGED <<now, frames, fltVars, hcVars, fnVars, btEvents, btLog, jab,
                   gest, gcVars, palmVars, lifeVars, lateVars>>

\* a detection frame of the BoxingTracker whose fists the page holds
SnapBoxFrame(results, dt) ==
    /\ snap.who = "boxing"
    /\ BT_Frame(results, dt, SnapMaxFrames)

(***************************************************************************)
(* A OneEuroFilter driven by arbitrary calls of filter() and reset()       *)
(***************************************************************************)
MaxCalls == 5

FilterXs == {300, 700}

FilterDTs == {-20, 0, 20, 40}


FilterCall(x, dt) ==
    /\ frames < MaxCalls
    /\ frames' = frames + 1
    /\ fltT' = fltT + dt
    /\ flt' = Filter(flt, x, fltT')
    /\ fltRet' = [op |-> "filter", x |-> x, t |-> fltT', out |-> flt'.xPrev,
                  first |-> (fltRun.n = 0), before |-> flt]
    /\ fltRun' = [fltRun EXCEPT !.n = @ + 1,
                                !.v = x,
                                !.still = @ /\ (fltRun.n = 0 \/ fltRun.v = x),
                                !.incr = @ /\ (fltRun.n = 0 \/ dt > 0)]
    /\ UNCHANGED <<now, hcVars, fnVars, btVars, auxVars>>

ResetCall ==
    /\ frames < MaxCalls
    /\ frames' = frames + 1
    /\ flt' = Reset(flt)
    /\ fltRet' = [op |-> "reset", x |-> Null, t |-> Null, out |-> Null,
                  first |-> FALSE, before |-> flt]
    /\ fltRun' = [n |-> 0, v |-> Null, still |-> TRUE, incr |-> TRUE,
                  resets |-> fltRun.resets + 1]
    /\ UNCHANGED <<now, fltT, hcVars, fnVars, btVars, auxVars>>

(***************************************************************************)
(* Specifications: one per tracker, each from the constructed state        *)
(***************************************************************************)
\* every object as its constructor (or the script's top level) leaves it
Init ==
    /\ now = T0
    /\ frames = 0
    /\ HCConstructed
    /\ TrackerReady
    /\ FNConstructed
    /\ FilterConstructed
    /\ BTConstructed
    /\ JabConstructed
    /\ GestConstructed
    /\ PFConstructed
    /\ HUDConstructed
    /\ PalmConstructed
    /\ SnapConstructed
    /\ BootRunning
    /\ OppConstructed
    /\ GameConstructed

Next == \E results \in HCResults, dt \in HCDTs : HC_onResults(results, dt)

Spec == Init /\ [][Next]_vars

FruitNext == \E results \in FNResults, dt \in FNDTs : FN_detectHands(results, dt)

SpecFruit == Init /\ [][FruitNext]_vars

BoxNext == \E results \in BTScenes, dt \in BTDTs : BT_Frame(results, dt, BTMaxFrames)

SpecBox == Init /\ [][BoxNext]_vars

PunchNext == \E results \in BPScenes, dt \in BTDTs : BT_Frame(results, dt, BPMaxFrames)

SpecPunch == Init /\ [][PunchNext]_vars

GuardNext == \E results \in GuardScenes : BT_Frame(results, GuardDt, GuardMaxFrames)

SpecGuard == Init /\ [][GuardNext]_vars

FilterNext ==
    \/ \E x \in FilterXs, dt \in FilterDTs : FilterCall(x, dt)
    \/ ResetCall

SpecFilter == Init /\ [][FilterNext]_vars

JabNext ==
    \E n \in JabSteps, r \in JabRestFrames, m \in {1, 2}, h \in JabHands :
        JabFrame(n, r, m, h)

SpecJab == Init /\ [][JabNext]_vars

GestureNext ==
    \E fs \in [1..4 -> FingerStates], thumb \in ThumbStates : ClassifyHand(fs, thumb)

SpecGesture == Init /\ [][GestureNext]_vars

\* Particle Forge and the HUD demo are two pages: a behaviour runs one of them
GestureChangeNext ==
    \/ \E results \in PFResults, dt \in GCDTs : PF_onHandResults(results, dt)
    \/ \E results \in HUDResults, dt \in GCDTs : HUD_onResults(results, dt)

SpecGestureChange == Init /\ [][GestureChangeNext]_vars

\* Particle Forge alone, with frames far enough apart for a pinch to outlast
\* the gesture cooldown
GrabMaxFrames == 5

GrabDTs == {150, 250}

GrabResults ==
    {<<>>,
     <<MkHand(500, 800, 0, <<"up", "up", "up", "up">>, "pinch")>>,
     <<MkHand(500, 800, 0, <<"up", "up", "up", "up">>, "spread")>>}

GrabNext ==
    \E results \in GrabResults, dt \in GrabDTs :
        PF_Frame(results, dt, GrabMaxFrames)

SpecGrab == Init /\ [][GrabNext]_vars

PalmNext ==
    \/ \E region \in PalmRegions, dt \in PalmDTs : PalmDetect(region, dt)
    \/ \E dt \in PalmDTs : PalmRender(dt)
    \/ PalmGameOver

SpecPalm == Init /\ [][PalmNext]_vars

LifeNext ==
    \/ \E pinchThreshold \in LifeOptions :
           HC_construct(pinchThreshold) /\ UNCHANGED lateVars
    \/ HC_init
    \/ HC_destroy
    \/ \E results \in LifeResults, dt \in HCDTs : HC_onResults(results, dt)

SpecLife == Init /\ [][LifeNext]_vars

\* a page builds a HandCursor, starts init() and may call destroy() any time
BootNext ==
    \/ Boot_construct
    \/ Boot_init
    \/ Boot_resume
    \/ Boot_reject
    \/ Boot_onloadeddata
    \/ Boot_timer
    \/ Boot_loopStop
    \/ \E results \in LifeResults, dt \in HCDTs : Boot_loopFrame(results, dt)
    \/ HC_destroy

SpecBoot == Init /\ [][BootNext]_vars

\* the opponent between the player's punches, the animation frames and its
\* own timers
OppNext ==
    \/ \E dt \in OppDTs : Opp_Wait(dt)
    \/ \E counter \in BOOLEAN, dir \in OppDirs : Opp_Timer(counter, dir)
    \/ \E punch \in OppPunches, block \in BOOLEAN, dodge \in BOOLEAN :
          Opp_TakeDamage(punch, block, dodge)
    \/ \E type \in OppAttackTypes, dir \in OppDirs :
          Opp_AiUpdate(type, dir, opp.attackInterval.min)
    \/ Opp_Recover
    \/ \E index \in {1} : Opp_SetFighter(index)

SpecOpp == Init /\ [][OppNext]_vars

\* the KNOCKOUT page with the tracker at rest: its buttons, its animation
\* frames, the player's punches, and the timers of the engine and the opponent
GameNext ==
    \/ App_Start
    \/ \E dt \in GameDTs, select \in BOOLEAN, attack \in GameAttacks :
          App_gameLoop(dt, select, attack)
    \/ \E punch \in GamePunches, rolls \in GameRolls : App_Punch(punch, rolls)
    \/ App_GameTimer
    \/ \E counter \in BOOLEAN, dir \in OppDirs : App_OppTimer(counter, dir)

SpecGame == Init /\ [][GameNext]_vars

\* the KNOCKOUT page with the tracker's frames: the player guards and
\* dodges, the opponent throws combos and never blocks
RingNext ==
    \/ App_Start
    \/ \E dt \in GameDTs, attack \in RingAttacks : App_gameLoop(dt, FALSE, attack)
    \/ \E results \in GameScenes, rolls \in RingRolls :
          App_onResults(results, rolls)
    \/ \E punch \in GamePunches, rolls \in RingRolls : App_Punch(punch, rolls)
    \/ App_GameTimer
    \/ App_OppTimer(FALSE, "left")

SpecRing == Init /\ [][RingNext]_vars

\* a page reads one tracker through its accessor while the tracker runs
SnapNext ==
    \/ SnapGetPosition
    \/ \E x \in SnapXs : SnapWritePosition(x)
    \/ \E results \in SnapResults : SnapCursorFrame(results, SnapDt)
    \/ SnapGetFistPositions
    \/ \E label \in Labels, x \in SnapXs : SnapWriteFist(label, x)
    \/ \E results \in SnapScenes : SnapBoxFrame(results, SnapDt)

SpecSnap == Init /\ [][SnapNext]_vars

(***************************************************************************)
(* Claims about HandCursor (checked under Spec)                            *)
(***************************************************************************)
Fired(e) == \E i \in 1..Len(hcEvents) : hcEvents[i] = e

\* C1: while the primary hand has stayed visible since the pinch predicate was
\* last false, a run of pinch-true frames that has lasted at most PINCH_HOLD_MS
\* has fired no onPinch, and a run that has lasted longer has fired onPinch
\* exactly once (so nothing more fires until the predicate becomes false).
C1_PinchDebounce ==
    (hcFrame.hands > 0 /\ hcFrame.pinch /\ ~hcRun.gap) =>
        /\ (now - hcRun.start <= PINCH_HOLD_MS => hcRun.fires = 0)
        /\ (now - hcRun.start > PINCH_HOLD_MS => hcRun.fires = 1)

C1_Witness ==
    /\ hcFrame.hands > 0 /\ hcFrame.pinch /\ ~hcRun.gap
    /\ hcRun.fires = 1
    /\ ~Fired("onPinch")
    /\ cursor.pinching

\* C2: onPinch fires only when the current run of consecutive frames with the
\* hand present and the pinch predicate true (a frame without a hand ends the
\* run) has lasted longer than PINCH_HOLD_MS.
C2_HoldNeedsEveryFrame ==
    Fired("onPinch") =>
        (hcRun.start # Null /\ now - hcRun.start > PINCH_HOLD_MS)

\* C3: onRelease fires exactly on the first frame with the pinch predicate
\* false after an onPinch, and onPinch and onRelease alternate, onPinch first.
C3_ReleaseAlternates ==
    /\ Fired("onRelease") <=>
          (hcFrame.hands > 0 /\ ~hcFrame.pinch /\ hcFrame.lastBefore = "onPinch")
    /\ Fired("onPinch") => hcFrame.lastBefore # "onPinch"
    /\ ~(Fired("onPinch") /\ Fired("onRelease"))
    /\ hcRun.last \in {"none", "onPinch", "onRelease"}
    /\ (hcRun.last = "onPinch") <=> cursor.pinching

C3_Witness ==
    /\ Fired("onRelease")
    /\ hcFrame.lastBefore = "onPinch"
    /\ ~cursor.pinching

(***************************************************************************)
(* Claims about BoxingTracker (checked under SpecBox and SpecPunch)        *)
(***************************************************************************)
BTFired(e) == \E i \in 1..Len(btEvents) : btEvents[i].ev = e

BTGuardEvents == SelectSeq(btEvents, LAMBDA e : e.ev = "onGuardChange")

\* C4: for each hand, two successive onPunch events of that hand are at least
\* PUNCH_COOLDOWN_MS apart (checked under SpecPunch).
C4_PunchCooldown ==
    \A h \in Labels :
        btLog.punchBefore[h] # Null =>
            btLog.punchAt[h] - btLog.punchBefore[h] >= PUNCH_COOLDOWN_MS

C4_Witness ==
    /\ btLog.punchBefore["left"] # Null
    /\ BTFired("onPunch")
    /\ bt.punchCooldown["left"] = now

\* C5: no onPunch fires in a frame in which the guard is active, the frame on
\* which the two hands first form the guard included (checked under SpecBox).
C5_NoPunchWhileGuarding ==
    BTFired("onPunch") => ~bt.isGuarding

\* C6: onGuardChange fires at most once per update, exactly in the updates in
\* which isGuarding changes, with the new value; its arguments alternate,
\* starting with true (checked under SpecBox).
C6_GuardEdgeTriggered ==
    /\ Len(BTGuardEvents) <= 1
    /\ (Len(BTGuardEvents) = 1) <=> (bt.isGuarding # btLog.wasGuarding)
    /\ Len(BTGuardEvents) = 1 =>
          /\ BTGuardEvents[1].arg = bt.isGuarding
          /\ IF BTGuardEvents[1].arg
             THEN btLog.guardArgBefore \in {"none", "false"}
             ELSE btLog.guardArgBefore = "true"
    /\ bt.isGuarding <=> (btLog.guardArg = "true")

C6_Witness ==
    /\ bt.isGuarding /\ btLog.wasGuarding
    /\ bt.hands.left.visible /\ bt.hands.right.visible
    /\ btEvents = <<>>
    /\ btLog.guardArgBefore = "false"

\* C7: two successive onDodge events are at least DODGE_COOLDOWN_MS apart
\* (checked under SpecBox).
C7_DodgeCooldown ==
    btLog.dodgeBefore # Null =>
        btLog.dodgeAt - btLog.dodgeBefore >= DODGE_COOLDOWN_MS

C7_Witness ==
    /\ btLog.dodgeBefore # Null
    /\ BTFired("onDodge")
    /\ now - btLog.dodgeBefore >= DODGE_COOLDOWN_MS

(***************************************************************************)
(* Claims about the trackers that smooth with OneEuroFilter                *)
(***************************************************************************)
\* C8: the first filtered position a hand slot reports after a frame in
\* which that hand was absent equals that frame's raw position (Fruit Ninja
\* handData, checked under SpecFruit).
C8_FreshAfterAbsence ==
    \A i \in 1..2 :
        (fnFrame[i].present /\ ~fnFrame[i].wasVisible) =>
            (handData[i].x = fnFrame[i].rawX /\ handData[i].y = fnFrame[i].rawY)

\* the same statement for HandCursor's primary hand (checked under Spec)
HC_FreshAfterAbsence ==
    (hcFrame.hands > 0 /\ ~hcFrame.wasVisible) =>
        (cursor.x = hcFrame.rawX /\ cursor.y = hcFrame.rawY)

(***************************************************************************)
(* Claims about OneEuroFilter (checked under SpecFilter)                   *)
(***************************************************************************)
FreshAfter(x, t) == Filter(NewFilter(flt.minCutoff, flt.beta), x, t)

\* C9 as stated: after reset() or construction the next filter(x, t) returns x
\* and leaves the filter in the state of a new filter given (x, t) first.
C9_ResetIndependenceWholeState ==
    (fltRet.op = "filter" /\ fltRet.first) =>
        /\ fltRet.out = fltRet.x
        /\ flt = FreshAfter(fltRet.x, fltRet.t)

\* C9 amended: after reset() or construction the next filter(x, t) returns x
\* and leaves xPrev, dxPrev and tPrev (all that filter() reads) as in a new
\* filter given (x, t) first; the freq field keeps its last value.
C9_ResetIndependence ==
    (fltRet.op = "filter" /\ fltRet.first) =>
        /\ fltRet.out = fltRet.x
        /\ flt.xPrev = FreshAfter(fltRet.x, fltRet.t).xPrev
        /\ flt.dxPrev = FreshAfter(fltRet.x, fltRet.t).dxPrev
        /\ flt.tPrev = FreshAfter(fltRet.x, fltRet.t).tPrev

C9_Witness ==
    /\ fltRet.op = "filter" /\ fltRet.first
    /\ fltRun.resets > 0
    /\ flt.freq # 60
    /\ fltRet.out = fltRet.x

\* C10: the same value v fed at strictly increasing timestamps since the
\* filter was constructed or reset comes back within 0.01 of v on every call.
C10_StillInput ==
    (fltRet.op = "filter" /\ fltRun.still /\ fltRun.incr) =>
        Abs(fltRet.out - fltRet.x) <= 10

C10_Witness ==
    /\ fltRet.op = "filter" /\ fltRun.still /\ fltRun.incr
    /\ fltRun.n >= 3
    /\ fltRet.out = fltRet.x

\* C11: a filter() call with t <= tPrev on a filter that holds a sample uses
\* dt = 1e-6 (freq becomes 1/1e-6), both smoothing coefficients are strictly
\* between 0 and 1, and the returned value lies between the previous smoothed
\* value and the raw value.
C11_ClampedDt ==
    (fltRet.op = "filter" /\ ~fltRet.first /\ fltRet.t <= fltRet.before.tPrev) =>
        LET c == FilterCoeffs(fltRet.before, fltRet.x, fltRet.t)
        IN  /\ flt.freq = 1000000
            /\ 0 < c.aDx[1] /\ c.aDx[1] < c.aDx[2]
            /\ 0 < c.a[1] /\ c.a[1] < c.a[2]
            /\ Min(fltRet.before.xPrev, fltRet.x) <= fltRet.out
            /\ fltRet.out <= Max(fltRet.before.xPrev, fltRet.x)

C11_Witness ==
    /\ fltRet.op = "filter" /\ ~fltRet.first
    /\ fltRet.t < fltRet.before.tPrev
    /\ fltRet.x # fltRet.before.xPrev
    /\ flt.freq = 1000000
    /\ flt.dxPrev # 0

BTPunchOf(h) ==
    \E i \in 1..Len(btEvents) : btEvents[i].ev = "onPunch" /\ btEvents[i].hand = h

\* C12: when _detectPunch finds a hand reaching for longer than
\* PUNCH_REACH_TIME and no earlier frame of this reach found it extended, the
\* attempt is discarded silently: no onPunch fires for that hand, reaching
\* returns to false and the hand's punchCooldown is unchanged (SpecBox).
C12_ReachFailureSilent ==
    \A h \in Labels :
        (/\ btLog.ran2[h]
         /\ now - btLog.pre.punchState[h].startTime > PUNCH_REACH_TIME
         /\ ~btLog.extBefore[h]) =>
            /\ ~BTPunchOf(h)
            /\ ~bt.punchState[h].reaching
            /\ bt.punchCooldown[h] = btLog.pre.punchCooldown[h]

\* C13: over the whole scripted jab (one hand, x and y fixed, the wrist
\* JabReach toward the camera over JabStrokeMs and back to rest, never a
\* guard) exactly one onPunch fires and its type is jab (SpecJab).
C13_OneJab ==
    /\ jab.punches <= 1
    /\ jab.types \subseteq {"jab"}
    /\ ~bt.isGuarding
    /\ jab.done => jab.punches = 1

C13_Witness ==
    /\ jab.done
    /\ jab.punches = 1
    /\ bt.lastPunch.type = "jab"
    /\ bt.lastPunch.reach > 0

\* C14: in the update in which a hand that was tracked before comes back
\* after one or more frames without it, no onPunch fires for that hand and no
\* reach starts for it (SpecBox).
C14_NoTeleportPunch ==
    \A h \in Labels :
        (/\ btLog.present[h]
         /\ ~btLog.pre.hands[h].visible
         /\ Len(btLog.pre.history[h]) > 0) =>
            /\ ~BTPunchOf(h)
            /\ bt.punchState[h].reaching => btLog.pre.punchState[h].reaching

(***************************************************************************)
(* Claims about the gesture classifiers (checked under SpecGesture)        *)
(***************************************************************************)
GestureLabels == {"none", "point", "palm", "pinch", "fist", "peace"}

\* C15: every classifier returns one label of {none, point, palm, pinch,
\* fist, peace}; a hand with the four fingers up and the thumb spread (no
\* pinch) is labelled palm, and a hand that is no pinch, fist, point, peace or
\* open palm is labelled none.
C15_ClassifierLabels ==
    gest.called =>
        /\ gest.pf \in GestureLabels
        /\ gest.fn \in GestureLabels
        /\ (gest.fs = <<"up", "up", "up", "up">> /\ gest.thumb = "spread") =>
               gest.pf = "palm"
        /\ (gest.fs = <<"up", "up", "up", "curl">> /\ gest.thumb = "spread") =>
               gest.pf = "none"

(***************************************************************************)
(* Claims about the gesture-change cooldown (SpecGestureChange)            *)
(***************************************************************************)
\* C16: in Particle Forge (300 ms) and the HUD demo (200 ms) two accepted
\* gesture transitions are never closer together than the cooldown, and a
\* frame whose classifier label differs from currentGesture inside the window
\* changes neither currentGesture nor isGrabbing and triggers no action.
C16_GestureCooldown ==
    /\ pfLog.acceptedBefore # Null =>
           pfLog.acceptedAt - pfLog.acceptedBefore >= 300
    /\ hudLog.acceptedBefore # Null =>
           hudLog.acceptedAt - hudLog.acceptedBefore >= 200
    /\ (/\ pfLog.hand /\ pfLog.label # pfLog.pre.currentGesture
        /\ now - pfLog.pre.lastGestureChange < 300) =>
           /\ pf.currentGesture = pfLog.pre.currentGesture
           /\ pf.isGrabbing = pfLog.pre.isGrabbing
           /\ pf.actions = <<>>
    /\ (/\ hudLog.hand /\ hudLog.label # hudLog.pre.currentGesture
        /\ now - hudLog.pre.lastGestureChange < 200) =>
           /\ hud.currentGesture = hudLog.pre.currentGesture
           /\ hud.isGrabbing = hudLog.pre.isGrabbing
           /\ hud.actions = <<>>
    /\ pf.currentGesture # pfLog.pre.currentGesture =>
           pf.lastGestureChange = now
    /\ hud.currentGesture # hudLog.pre.currentGesture =>
           hud.lastGestureChange = now

C16_Witness ==
    /\ pfLog.acceptedBefore # Null
    /\ pfLog.blocked > 0
    /\ pfLog.hand /\ pfLog.label # pfLog.pre.currentGesture
    /\ pf.lastGestureChange = now
    /\ pf.actions # <<>>

(***************************************************************************)
(* Claims about palm hover-to-select (SpecPalm)                            *)
(***************************************************************************)
\* C17: once every detection frame has shown the open palm over the start
\* (or restart) button since before a render frame that lies PALM_HOLD_TIME
\* or more in the past, the present render frame invokes startGame, however
\* render frames and detection frames interleave.
C17_PalmHoldStarts ==
    (palmLog.op = "render" /\ palmLog.due) => palmUI.calls = <<"startGame">>

(***************************************************************************)
(* Claims about the HandCursor life cycle (SpecLife)                       *)
(***************************************************************************)
\* C18: no tracker holds a non-positive PINCH_THRESHOLD, and a construction
\* given a negative or zero pinchThreshold fails with an error.
C18_ConstructionFailsFast ==
    /\ tracker.PINCH_THRESHOLD > 0
    /\ (trLog.op = "construct" /\ trLog.opt # Null /\ trLog.opt <= 0) =>
           trLog.threw

\* C19: after destroy() both filters are in the reset state, cursor.pinching
\* and cursor.visible are false and pinchStartTime is 0.
C19_DestroyClears ==
    trLog.op = "destroy" =>
        /\ filters.x = Reset(filters.x) /\ filters.y = Reset(filters.y)
        /\ ~cursor.pinching
        /\ pinchStartTime = 0
        /\ ~cursor.visible

(***************************************************************************)
(* Claims about the read accessors (SpecSnap)                              *)
(***************************************************************************)
\* C20: writing to the object getPosition() or getFistPositions() returned
\* changes no tracker state, and the returned object keeps what the page
\* last read or wrote there whatever updates the tracker runs afterwards.
C20_Snapshots ==
    /\ ~snap.ownerChanged
    /\ snap.who = "cursor" => Deref(snap.pos, cursor) = snap.seen
    /\ snap.who = "boxing" =>
           \A h \in Labels : Deref(snap.fists[h], BT_fistView(bt, h)) = snap.seen[h]

C20_Witness ==
    /\ snap.who = "cursor"
    /\ snap.writes > 0
    /\ frames > snap.framesAt
    /\ cursor.visible
    /\ snap.seen # cursor
    /\ snap.seen.x \in SnapXs

C20_WitnessFists ==
    /\ snap.who = "boxing"
    /\ snap.writes > 0
    /\ frames > snap.framesAt
    /\ bt.hands.left.visible
    /\ snap.seen["left"] # BT_fistView(bt, "left")

(***************************************************************************)
(* Claims about the punch state machine and the guard (SpecBox)            *)
(***************************************************************************)
\* C21: after the update in which the guard activates (isGuarding goes from
\* false to true) no hand's PunchState is reaching, so a reach begun before
\* the guard cannot complete once the guard has ended.
C21_GuardClearsReach ==
    (bt.isGuarding /\ ~btLog.wasGuarding) =>
        \A h \in Labels : ~bt.punchState[h].reaching

\* armRetreating as _detectPunch evaluated it, read off the history
BTRetreating(h) ==
    LET hist == bt.history[h]
    IN  Len(hist) >= 3 /\ hist[Len(hist) - 2].z - hist[Len(hist)].z < -10

BTPunches == SelectSeq(btEvents, LAMBDA e : e.ev = "onPunch")

\* C23: the type of every fired onPunch is uppercut iff the vertical travel
\* is above 0.08 and the hand is above y = 0.45, else hook iff the lateral
\* travel is above 0.08, else jab, the travel measured from the start of the
\* reach to the hand's position at completion.
C23_PunchType ==
    \A i \in 1..Len(BTPunches) :
        LET h       == BTPunches[i].hand
            yTravel == btLog.pre.punchState[h].startY - bt.hands[h].y
            xTravel == Abs(bt.hands[h].x - btLog.pre.punchState[h].startX)
            upper   == yTravel > 80 /\ bt.hands[h].y < 450
        IN  /\ BTPunches[i].type \in {"uppercut", "hook", "jab"}
            /\ BTPunches[i].type = "uppercut" <=> upper
            /\ BTPunches[i].type = "hook" <=> (~upper /\ xTravel > 80)
            /\ BTPunches[i].type = "jab" <=> (~upper /\ xTravel <= 80)
            /\ bt.lastPunch.type = BTPunches[Len(BTPunches)].type

\* an uppercut whose lateral travel would also make it a hook
C23_Witness ==
    /\ Len(BTPunches) = 1
    /\ BTPunches[1].type = "uppercut"
    /\ BTPunches[1].hand = "left"
    /\ Abs(bt.hands.left.x - btLog.pre.punchState.left.startX) > 80

BTAvgX ==
    LET L == bt.hands.left
        R == bt.hands.right
        count == (IF L.visible THEN 1 ELSE 0) + (IF R.visible THEN 1 ELSE 0)
        sum   == (IF L.visible THEN L.x ELSE 0) + (IF R.visible THEN R.x ELSE 0)
    IN  IF count = 0 THEN 500 ELSE Rnd(sum, count)

\* C25: after an update in which no hand is visible, or in which the average
\* x of the visible hands is within DODGE_X_THRESHOLD of 0.5, dodgeDirection
\* is null (SpecBox).
C25_DodgeReverts ==
    (/\ frames > 0
     /\ \/ ~bt.hands.left.visible /\ ~bt.hands.right.visible
        \/ Abs(BTAvgX - 500) <= DODGE_X_THRESHOLD) =>
        bt.dodgeDirection = "null"

(***************************************************************************)
(* Claims about the second hand of HandCursor (Spec)                       *)
(***************************************************************************)
\* C26: after a frame secondHand.visible is true only if that frame held a
\* second detected hand; on the frame on which the detector goes from two
\* hands to one, secondHand.visible becomes false.
C26_SecondHandFresh ==
    (frames > 0 /\ secondHand.visible) => hcFrame.hands >= 2

(***************************************************************************)
(* Claims about the fist predicates (SpecGesture)                          *)
(***************************************************************************)
\* the hand the classifiers were last given
GestHand == MkHand(500, 800, 0, gest.fs, gest.thumb)

\* fingers whose tip is closer to the wrist than 0.85 of its PIP
CurledToWrist ==
    {f \in 1..4 : 400 * Dist2(GestHand[FingerTip[f]], GestHand[0])
                    < 289 * Dist2(GestHand[FingerPip[f]], GestHand[0])}

\* fingers whose tip is below its MCP
CurledBelowMcp ==
    {f \in 1..4 : GestHand[FingerTip[f]].y > GestHand[FingerMcp[f]].y}

\* C27: each fist predicate reports a fist exactly when at least 3 of the 4
\* non-thumb fingers are curled under its own curl signal: HandCursor
\* _isFistClosed (tip nearer the wrist than 0.85 of the PIP), BoxingTracker
\* _isFistClosed and the fist branch of Particle Forge analyzeGesture (tip
\* below the MCP; the branch is reached when the hand is no pinch).
C27_FistMajority ==
    gest.called =>
        /\ gest.hcFist <=> Cardinality(CurledToWrist) >= 3
        /\ gest.btFist <=> Cardinality(CurledBelowMcp) >= 3
        /\ gest.pf # "pinch" =>
              (gest.pf = "fist" <=> Cardinality(CurledBelowMcp) >= 3)

\* C28: for each hand, reaching = true implies that startTime is the time
\* of the update that entered the reach and is not later than the time of
\* the last update, and that peakZ >= startZ (SpecBox).
C28_PunchStateWellFormed ==
    \A h \in Labels :
        bt.punchState[h].reaching =>
            /\ bt.punchState[h].startTime = btLog.enteredAt[h]
            /\ bt.punchState[h].startTime <= now
            /\ bt.punchState[h].peakZ >= bt.punchState[h].startZ

\* a reach that is still open after the hand has come back behind the depth
\* it started from
C28_Witness ==
    /\ bt.punchState["left"].reaching
    /\ btLog.ran2["left"]
    /\ bt.punchState["left"].startTime < now
    /\ -bt.hands.left.z < bt.punchState["left"].startZ

\* C29: an update with no detected hands fires no onPunch and no onDodge and
\* at most onGuardChange(false), leaves both hands invisible, sets
\* dodgeDirection to null unless the dodge cooldown is running, and leaves
\* punchState, punchCooldown and the history as they were (SpecBox).
C29_EmptyFrame ==
    (frames > 0 /\ ~btLog.present["left"] /\ ~btLog.present["right"]) =>
        /\ \A i \in 1..Len(btEvents) :
               btEvents[i].ev = "onGuardChange" /\ ~btEvents[i].arg
        /\ ~bt.hands.left.visible /\ ~bt.hands.right.visible
        /\ ~bt.isGuarding
        /\ ~BT_inDodgeCooldown(btLog.pre, now) => bt.dodgeDirection = "null"
        /\ bt.punchState = btLog.pre.punchState
        /\ bt.punchCooldown = btLog.pre.punchCooldown
        /\ bt.history = btLog.pre.history

\* an empty frame that ends a guard while a reach is open
C29_Witness ==
    /\ ~btLog.present["left"] /\ ~btLog.present["right"]
    /\ btEvents = <<[ev |-> "onGuardChange", arg |-> FALSE]>>
    /\ bt.punchState["left"].reaching
    /\ Len(bt.history["left"]) >= 3
    /\ btLog.pre.hands.left.visible

C31_HiddenNotPinching ==
    /\ ~cursor.visible => ~cursor.pinching
    /\ (hcFrame.hands = 0 /\ hcFrame.wasPinching) => Fired("onRelease")

(***************************************************************************)
(* Claims about destroy() during start-up (SpecBoot)                       *)
(***************************************************************************)
\* the onReady calls among the recorded calls
BootReadyCalls(calls) == SelectSeq(calls, LAMBDA c : c = "onReady")

\* C32: once destroy() has returned, no step processes a frame (the tracking
\* loop does not run, so onResults, onMove, onPinch, onRelease and onPalmOpen
\* are not called) and onReady is not called, also when destroy() came while
\* init() was suspended at an await or before the warm-up timer fired.
C32_DestroyStopsTracker ==
    [][(trLog.op = "destroy" /\ trLog'.op = "destroy") =>
          /\ frames' = frames
          /\ hcEvents' = hcEvents
          /\ BootReadyCalls(boot'.calls) = BootReadyCalls(boot.calls)]_vars

(***************************************************************************)
(* Claims about the grab of Particle Forge (SpecGrab)                      *)
(***************************************************************************)
\* C33: when every frame for longer than the 300 ms gesture cooldown has
\* held a hand that analyzeGesture labels pinch, isGrabbing is true, also
\* when the hand was lost during a pinch and came back pinching.
C33_PinchMeansGrab ==
    (pfLog.pinchSince # Null /\ now - pfLog.pinchSince > 300) => pf.isGrabbing

(***************************************************************************)
(* Claims about OpponentAI (SpecOpp)                                       *)
(***************************************************************************)
\* C34: a step other than recover() and setFighter() that finds the state
\* knocked-down leaves it knocked-down; no timer set earlier moves the
\* opponent out of that state.
C34_KnockdownSticks ==
    (oppLog.pre = "knocked-down" /\ oppLog.op \notin {"recover", "setFighter"})
        => opp.state = "knocked-down"

\* the onAttack callbacks of the last step
OppAttacks == SelectSeq(opp.events, LAMBDA e : e.ev = "onAttack")

\* C35: onAttack is never invoked while the opponent is knocked-down or
\* stunned, the delayed second punch of a combo and the delayed counter
\* after a block included.
C35_NoAttackWhenDown ==
    \A i \in 1..Len(OppAttacks) :
        /\ OppAttacks[i].state # "knocked-down"
        /\ ~OppAttacks[i].stunned

(***************************************************************************)
(* Claims about the KNOCKOUT page (SpecGame, SpecRing)                     *)
(***************************************************************************)
GameWins == game.player.roundsWon + game.oppRoundsWon

\* the player is down: the round is lost and the next one not yet started
GamePlayerDown ==
    \E i \in 1..Len(game.timers) : game.timers[i].kind = "playerDown"

C36_WitnessTko ==
    /\ game.state = "round-end"
    /\ game.knockdownCount = 3
    /\ game.player.roundsWon = 1

\* the inputs the four guarded methods are tried with
GameTypes == {"jab", "hook", "uppercut", "combo"}

\* C37: hp and stamina stay between 0 and their maxima, the round timer is
\* never negative, the round is between 1 and maxRounds, the round wins of
\* both sides are no more than the round; and unless the state is 'fighting'
\* playerPunch, playerTakeDamage, tick and drainGuardStamina leave the engine
\* as it is.
C37_EngineInvariants ==
    /\ 0 <= game.player.hp /\ game.player.hp <= game.player.maxHp
    /\ 0 <= game.player.stamina
    /\ game.player.stamina <= game.player.maxStamina
    /\ game.roundTimer >= 0
    /\ 1 <= game.round /\ game.round <= game.maxRounds
    /\ GameWins <= game.round
    /\ game.state # "fighting" =>
          /\ \A type \in GameTypes, power \in {1000, 3000} :
                Game_playerPunch(game, type, power).game = game
          /\ \A type \in GameTypes, isGuarding \in BOOLEAN :
                Game_playerTakeDamage(game, type, isGuarding, now) = game
          /\ \A dt \in GameDTs :
                Game_tick([game |-> game, opp |-> opp], now + dt) = game
          /\ Game_drainGuardStamina(game) = game

\* an animation frame has called tick while the opponent was down, the
\* player short of stamina and hurt
C37_Witness ==
    /\ gameLog.op = "gameLoop"
    /\ gameLog.pre.state = "knockdown"
    /\ game.state = "knockdown"
    /\ game.player.stamina < game.player.maxStamina
    /\ game.player.hp < game.player.maxHp

\* a guarded hit has drained hp and stamina
C37_WitnessGuard ==
    /\ gameLog.op = "oppTimer"
    /\ bt.isGuarding
    /\ game.player.damageTaken > 0
    /\ game.player.stamina < game.player.maxStamina

\* the attacks the player dodged in the opposite direction
AppOpposite(a) ==
    \/ a.playerDodge = "left" /\ a.direction = "right"
    \/ a.playerDodge = "right" /\ a.direction = "left"

\* C38: an opponent attack counts as dodged only when the player's dodge
\* direction is opposite to the attack's direction; any other attack that
\* the page handles while fighting takes hp from the player.
C38_DodgeOpposite ==
    \A i \in 1..Len(game.attacks) :
        LET a == game.attacks[i]
        IN  /\ a.dodged => AppOpposite(a)
            /\ ~AppOpposite(a) => a.hpAfter < a.hpBefore

====
